---- MODULE Spec2Model ----
(***************************************************************************)
(* Ingestion pipeline of RobustNFLStatsApplication: the BALLDONTLIE source *)
(* client (rate limiter, retry loop, cursor paginator), the Supabase sink  *)
(* client (retry loop) and the ingestion coordinator.                      *)
(*                                                                         *)
(* Durations are integers in microseconds (0.6 s = 600000).  JSON values   *)
(* are tagged records [kind, v] so that None, "", numbers and strings stay *)
(* distinct values.                                                        *)
(***************************************************************************)
EXTENDS Integers, Sequences, FiniteSets, TLC

VARIABLES
    \* ---- client configuration (constructor arguments)
    client,        \* "bdl" (BallDontLieNFLClient) or "sb" (SupabaseClient)
    max_retries,   \* self._max_retries
    per_page,      \* self._per_page
    \* ---- one logical request (_request) in flight
    rqPc,          \* "idle" | "loop" | "returned" | "raised"
    reqParams,     \* params of the logical request
    attempt,       \* loop variable of `for attempt in range(max_retries + 1)`
    backoff,       \* local `backoff`
    sleeps,        \* durations passed to self._sleep, in order
    lastFail,      \* the retryable failure that preceded the latest sleep
    rlWaits,       \* calls of self._rl.wait() made by this logical request
    attempts,      \* calls of session.request made by this logical request
    result,        \* what _request returned or raised
    events,        \* the calls this logical request made, in order:
                   \* "wait" (self._rl.wait), "request" (session.request), "sleep"
    \* ---- paginate
    pgPc,          \* "off" | "call" | "request" | "done" | "raised"
    cursor,        \* local `cursor`
    yielded,       \* ids of the rows yielded so far, in order
    calls,         \* params of every session.request call (StubSession.calls)
    pageReqs,      \* params of every logical page request
    pages,         \* every page response handled: its meta and the rows it yielded
    pgRetries,     \* attempts of page requests that failed and were retried
    pgError,       \* why paginate raised
    \* ---- the source server behind paginate
    srvMode,       \* "exact" | "eager" | "arbitrary"
    srvN,          \* number of records the source holds (honest modes)
    \* ---- ingest_stats_and_advanced
    seasons,               \* argument `seasons`
    batch_size,            \* argument `batch_size`
    include_season_stats,  \* argument
    include_game_stats,    \* argument
    include_advanced,      \* argument
    advanced_kw,           \* whether the caller passes the keywords advanced_weeks
                           \* and advanced_include_postseason: "absent" | "given"
    ingPhase,      \* the loop being run, "done", "raised", or "off"
    seasonIx,      \* index in seasons of the loop variable `season`
    buf,           \* `buf` of _chunked
    upserts,       \* the calls of supabase.upsert: table, on_conflict, rows
    counts,        \* the *_upserted counters
    ingError,      \* the exception that left the function
    feed,          \* what the source accessors yield: "mixed" | "flood"
    pulled,        \* records yielded by the source accessors so far
    invalidSeen,   \* per loop: records without `player` its accessor calls yielded
    bdlCalls,      \* the accessor calls made on bdl, with their arguments, in order
    \* ---- ingest_core
    fetched,       \* per resource: records the source has returned so far
    \* ---- the iter_* accessors of BallDontLieNFLClient
    accCall,       \* the accessor called and its arguments
    accParams,     \* the `params` the accessor hands to paginate
    \* ---- SupabaseClient.upsert / select / count and the sink behind them
    sbOp,          \* the operation called and its arguments
    sbPc,          \* "off" | "idle" | "request" | "done"
    sbReqs,        \* the logical requests handed to _request, in order
    sbOut,         \* what the operation returned or raised
    sbCalls,       \* how many times the operation has been called
    sinkTable,     \* rows of the sink's table
    sinkSeen,      \* attempts of the current logical request the sink side has settled
    sinkResp,      \* what the transport delivers for the attempt in flight
    sinkApplied,   \* how many times the sink has applied a write
    \* ---- RateLimiter
    min_interval_seconds,  \* field of the limiter
    last_ts,       \* field `_last_ts`
    clock,         \* what time.time() returns now
    waitLog,       \* per wait() call: when entered, what it slept, when returned
    \* ---- a row mapper applied to one source record
    mapper,        \* the mapper called
    record,        \* its argument
    mappedRow,     \* what it returned
    \* ---- main(), Supabase + BALLDONTLIE path
    mainPc,        \* "off" | "core" | "stats" | "returned" | "raised"
    advanced_only, \* bdl_advanced_only
    exitCode,      \* what main() returned
    logged         \* what main() wrote to the log, in order

cfgVars == <<client, max_retries, per_page>>
rqVars  == <<rqPc, reqParams, attempt, backoff, sleeps, lastFail, rlWaits, attempts, result,
             events>>
pgVars  == <<pgPc, cursor, yielded, calls, pageReqs, pages, pgRetries, pgError>>
srvVars == <<srvMode, srvN>>
ingArgs == <<seasons, batch_size, include_season_stats, include_game_stats, include_advanced,
             advanced_kw>>
ingVars == <<ingArgs, ingPhase, seasonIx, buf, upserts, counts, ingError, feed, pulled,
             invalidSeen, bdlCalls>>
coreVars == <<fetched>>
accVars == <<accCall, accParams>>
sbVars  == <<sbOp, sbPc, sbReqs, sbOut, sbCalls>>
sinkVars == <<sinkTable, sinkSeen, sinkResp, sinkApplied>>
rlVars  == <<min_interval_seconds, last_ts, clock, waitLog>>
mapVars == <<mapper, record, mappedRow>>
mainVars == <<mainPc, advanced_only, exitCode, logged>>
moreVars == <<mapVars, mainVars>>
extVars == <<coreVars, accVars, sbVars, sinkVars, rlVars, moreVars>>
clientVars == <<cfgVars, rqVars, pgVars, srvVars>>
vars    == <<cfgVars, rqVars, pgVars, srvVars, ingVars, extVars>>

----------------------------------------------------------------------------
\* Bounds of the model
MaxRetries      == 6   \* largest max_retries explored for a single logical request
PagMaxRetries   == 1   \* largest max_retries explored under paginate
MaxRecords      == 3   \* largest source sequence of an honest server
MaxPerPage      == 2   \* largest per_page
MaxPageRequests == 3   \* page requests answered by an arbitrary server
MaxCursor       == 2   \* largest next_cursor an arbitrary server returns
MaxSeasons      == 2   \* longest `seasons` list
MaxBatch        == 2   \* largest batch_size
MaxPulls        == 3   \* records the accessors yield in one mixed run

\* Program constants
InitialBackoff == 600000      \* backoff = 0.6
BackoffCap     == 10000000    \* min(..., 10.0)
BackoffMulNum  == 18          \* backoff * 1.8 = backoff * 18 / 10
BackoffMulDen  == 10
Second         == 1000 * 1000
FloodRows      == 30          \* rows of the flooding accessor of the abort test
FloodBatch     == 100         \* batch_size of the abort test

Min(a, b) == IF a <= b THEN a ELSE b

----------------------------------------------------------------------------
\* JSON values
NoneV      == [kind |-> "none",  v |-> 0]   \* None / key absent
EmptyStr   == [kind |-> "empty", v |-> 0]   \* ""
IntV(n)    == [kind |-> "int",   v |-> n]   \* JSON number n
NumStr(n)  == [kind |-> "str",   v |-> n]   \* the string str(n)
BadV       == [kind |-> "bad",   v |-> 0]   \* a value int() rejects, e.g. "abc"

\* `next_cursor in (None, "", 0)`
\* Variant: the integer zero is not taken as terminal.
IsTerminalCursorMut(nc) == nc.kind \in {"none", "empty"}

IsTerminalCursor(nc) ==
    \/ nc.kind = "none"
    \/ nc.kind = "empty"
    \/ nc.kind = "int" /\ nc.v = 0

\* Variant: any next_cursor is taken for a number.
IntCoercibleMut(nc) == TRUE

\* `int(next_cursor)` succeeds
IntCoercible(nc) == nc.kind \in {"int", "str"}

\* Variant: the cursor sent is not the one received.
IntOfMut(nc) == [kind |-> "int", v |-> nc.v + 1]

\* `int(next_cursor)`
IntOf(nc) == IntV(nc.v)

\* elements of `data`
DictRow(i) == [kind |-> "dict",  id |-> i]
OtherRow   == [kind |-> "other", id |-> 0]

ListData(items) == [kind |-> "list",  items |-> items]
NotAList        == [kind |-> "other", items |-> <<>>]

MetaObj(nc)  == [kind |-> "obj",     next_cursor |-> nc]
MetaMissing  == [kind |-> "missing", next_cursor |-> NoneV]   \* no "meta" key, null, {} ...
MetaNonObj   == [kind |-> "nonobj",  next_cursor |-> NoneV]   \* truthy and not a dict

Payload(d, m) == [data |-> d, meta |-> m]
NoPayload     == Payload(NotAList, MetaMissing)

\* Retry-After header values
RaAbsent   == [kind |-> "absent", v |-> 0]
RaEmpty    == [kind |-> "empty",  v |-> 0]   \* header present, ""
RaNum(s)   == [kind |-> "num",    v |-> s]   \* e.g. "30"
RaText     == [kind |-> "text",   v |-> 0]   \* e.g. an HTTP date
RetryAfterSecs == {30}
RetryAfters == {RaAbsent, RaEmpty, RaText} \cup {RaNum(s) : s \in RetryAfterSecs}

----------------------------------------------------------------------------
\* The transport: what one session.request call can produce
\* Variant: 404 is retried as well.
RetryableStatusesMut == {404, 429, 500, 502, 503, 504}

RetryableStatuses == {429, 500, 502, 503, 504}

\* Statuses and Retry-After headers the transport answers with.  A single
\* logical request is explored against all of them; under paginate, where
\* every page request runs the same loop, against one of each class.
Statuses ==
    IF pgPc = "off" THEN {200, 400, 404, 429, 500, 501, 503}
                    ELSE {200, 404, 500}
RetryAfterHeaders ==
    IF pgPc = "off" THEN RetryAfters ELSE {RaAbsent}

\* requests.Response.ok: no 4xx/5xx status
RespOk(s) == ~(400 <= s /\ s < 600)

\* Variant: only a 4xx status is a failure.
Is2xxMut(s) == ~(400 <= s /\ s < 500)

\* `200 <= resp.status_code < 300`
Is2xx(s)  == 200 <= s /\ s < 300

JsonDict(p) == [kind |-> "json_dict",  payload |-> p]           \* resp.json() is a dict
JsonOther   == [kind |-> "json_other", payload |-> NoPayload]   \* valid JSON, not a dict
NotJson     == [kind |-> "not_json",   payload |-> NoPayload]   \* resp.json() raises

TransportExc == [kind |-> "exc", status |-> 0, ra |-> RaAbsent, body |-> NotJson]
Resp(s, ra, b) == [kind |-> "resp", status |-> s, ra |-> ra, body |-> b]

\* Bodies a response with status s can carry: a success body is a JSON
\* document or not; the body of a failure only ends up in the error message.
BodiesFor(s, payloads) ==
    IF RespOk(s) THEN {JsonDict(p) : p \in payloads} \cup {JsonOther, NotJson}
                 ELSE {NotJson}

TransportOutcomes(payloads) ==
    {TransportExc} \cup
    UNION { {Resp(s, ra, b) : b \in BodiesFor(s, payloads)} :
            <<s, ra>> \in Statuses \X RetryAfterHeaders }

----------------------------------------------------------------------------
\* The source server behind paginate
NoCursor == NoneV

\* The page an honest server holding srvN records serves for params p: the
\* cursor is the number of records already served.
HonestPage(p) ==
    LET c    == IF p.cursor.kind = "int" THEN p.cursor.v ELSE 0
        hi   == Min(c + p.per_page, srvN)
        len  == IF hi > c THEN hi - c ELSE 0
        more == IF srvMode = "exact" THEN c + p.per_page < srvN
                                     ELSE len = p.per_page
    IN  Payload(ListData([i \in 1..len |-> DictRow(c + i)]),
                MetaObj(IF more THEN IntV(c + p.per_page) ELSE NoneV))

ArbCursors ==
    {NoneV, EmptyStr, BadV, NumStr(0), NumStr(MaxCursor)}
        \cup {IntV(n) : n \in 0..MaxCursor}

\* What a server bound by no protocol may answer: any data, any meta.
ArbitraryPages ==
    LET fresh == Len(yielded) + 1
        datas == {ListData(<<OtherRow, DictRow(fresh)>>), NotAList}
        metas == {MetaMissing, MetaNonObj} \cup {MetaObj(nc) : nc \in ArbCursors}
    IN  {Payload(d, m) : <<d, m>> \in datas \X metas}

PagePayloads ==
    IF srvMode = "arbitrary" THEN ArbitraryPages ELSE {HonestPage(reqParams)}

\* JSON bodies the server can send for the logical request in flight
ServerPayloads ==
    IF pgPc = "request" THEN PagePayloads
                        ELSE {Payload(ListData(<<>>), MetaMissing)}

----------------------------------------------------------------------------
\* The retry loop of _request (both clients)
Params(pp, c) == [per_page |-> pp, cursor |-> c]
NoParams      == Params(0, NoCursor)

NoFail  == [kind |-> "none", status |-> 0, ra |-> RaAbsent]
FailOf(o) == [kind |-> IF o.kind = "exc" THEN "exc" ELSE "status",
              status |-> o.status, ra |-> o.ra]

NoResult == [kind |-> "none", error |-> "", why |-> "", status |-> 0, body |-> NotJson]

\* `attempt >= self._max_retries`: this was the last attempt of the budget
\* Variant: one attempt fewer.
ExhaustedMut(a) == a + 1 >= max_retries

Exhausted(a) == a >= max_retries
Returned(s, b) ==
    [kind |-> "returned", error |-> "", why |-> "", status |-> s, body |-> b]
Raised(err, why, o) ==
    [kind |-> "raised", error |-> err, why |-> why, status |-> o.status, body |-> o.body]

\* Variant: the delay grows without the cap.
NextBackoffMut(b) == (b * BackoffMulNum) \div BackoffMulDen

\* backoff = min(backoff * 1.8, 10.0)
NextBackoff(b) == Min((b * BackoffMulNum) \div BackoffMulDen, BackoffCap)

\* `if retry_after: try: sleep(float(retry_after)) except: sleep(backoff)
\*  else: sleep(backoff)`
RetrySleep(ra, b) ==
    IF ra.kind \in {"absent", "empty"} THEN b
    ELSE IF ra.kind = "num" THEN ra.v * Second
    ELSE b

\* Entry of _request: the locals before the for loop.
StartRequest(p) ==
    /\ rqPc'      = "loop"
    /\ reqParams' = p
    /\ attempt'   = 0
    /\ backoff'   = InitialBackoff
    /\ sleeps'    = <<>>
    /\ lastFail'  = NoFail
    /\ rlWaits'   = 0
    /\ attempts'  = 0
    /\ result'    = NoResult
    /\ events'    = <<>>

\* Variant: the retry sleeps twice.
RetryStepMut(o, dur) ==
    /\ sleeps'   = sleeps \o <<dur, dur>>
    /\ lastFail' = FailOf(o)
    /\ backoff'  = NextBackoff(backoff)
    /\ attempt'  = attempt + 1
    /\ UNCHANGED <<rqPc, result>>

\* sleep, advance the backoff, `continue`
RetryStep(o, dur) ==
    /\ sleeps'   = Append(sleeps, dur)
    /\ lastFail' = FailOf(o)
    /\ backoff'  = NextBackoff(backoff)
    /\ attempt'  = attempt + 1
    /\ UNCHANGED <<rqPc, result>>

\* leave the loop by return or raise
EndRequest(pc, res) ==
    /\ rqPc'   = pc
    /\ result' = res
    /\ UNCHANGED <<sleeps, lastFail, backoff, attempt>>

\* What one iteration does before it looks at the outcome.
\* Variant: the limiter is not asked.
BdlAttemptEventsMut == <<"request">>

\* `self._rl.wait()` then `self._session.request(...)`
BdlAttemptEvents == <<"wait", "request">>

\* `self._session.request(...)`
SbAttemptEvents == <<"request">>

\* the iteration's calls, with the sleep it made if it made one
LogAttempt(pre) ==
    events' = events \o pre \o (IF Len(sleeps') > Len(sleeps) THEN <<"sleep">> ELSE <<>>)

\* One iteration of the for loop of BallDontLieNFLClient._request.
BdlRequestAttempt(o) ==
    /\ client = "bdl"
    /\ rqPc = "loop"
    /\ attempt <= max_retries
    /\ rlWaits'  = rlWaits + 1
    /\ attempts' = attempts + 1
    /\ calls'    = IF pgPc = "request" THEN Append(calls, reqParams) ELSE calls
    /\ LET retryable == o.kind = "exc" \/ o.status \in RetryableStatuses
       IN  pgRetries' = IF pgPc = "request" /\ retryable /\ ~Exhausted(attempt)
                        THEN pgRetries + 1 ELSE pgRetries
    /\ IF o.kind = "exc" THEN
          IF Exhausted(attempt)
          THEN EndRequest("raised", Raised("BallDontLieError", "exception", o))
          ELSE RetryStep(o, backoff)
       ELSE IF o.status \in RetryableStatuses THEN
          IF Exhausted(attempt)
          THEN EndRequest("raised", Raised("BallDontLieError", "status_after_retries", o))
          ELSE RetryStep(o, RetrySleep(o.ra, backoff))
       ELSE IF ~RespOk(o.status) THEN
          EndRequest("raised", Raised("BallDontLieError", "status", o))
       ELSE IF o.body.kind = "not_json" THEN
          EndRequest("raised", Raised("BallDontLieError", "json_decode", o))
       ELSE IF o.body.kind # "json_dict" THEN
          EndRequest("raised", Raised("BallDontLieError", "not_object", o))
       ELSE EndRequest("returned", Returned(o.status, o.body))
    /\ LogAttempt(BdlAttemptEvents)
    /\ UNCHANGED <<reqParams, cfgVars, srvVars, ingVars,
                   extVars>>
    /\ UNCHANGED <<pgPc, cursor, yielded, pageReqs, pages, pgError>>

\* One iteration of the for loop of SupabaseClient._request.
SbRequestAttempt(o) ==
    /\ client = "sb"
    /\ rqPc = "loop"
    /\ attempt <= max_retries
    /\ attempts' = attempts + 1
    /\ IF o.kind = "exc" THEN
          IF Exhausted(attempt)
          THEN EndRequest("raised", Raised("SupabaseError", "exception", o))
          ELSE RetryStep(o, backoff)
       ELSE IF o.status \in RetryableStatuses THEN
          IF Exhausted(attempt)
          THEN EndRequest("returned", Returned(o.status, o.body))
          ELSE RetryStep(o, RetrySleep(o.ra, backoff))
       ELSE EndRequest("returned", Returned(o.status, o.body))
    /\ LogAttempt(SbAttemptEvents)
    /\ UNCHANGED <<reqParams, rlWaits, cfgVars, srvVars, pgVars, ingVars, extVars>>

\* The caller has taken the result: the locals of _request are gone.
LeaveRequest ==
    /\ rqPc'      = "idle"
    /\ reqParams' = NoParams
    /\ attempt'   = 0
    /\ backoff'   = InitialBackoff
    /\ sleeps'    = <<>>
    /\ lastFail'  = NoFail
    /\ rlWaits'   = 0
    /\ attempts'  = 0
    /\ result'    = NoResult
    /\ events'    = <<>>

\* A caller enters _request (any method and path).
CallRequest ==
    /\ rqPc = "idle"
    /\ pgPc = "off"
    /\ StartRequest(NoParams)
    /\ UNCHANGED <<cfgVars, srvVars, pgVars, ingVars, extVars>>

----------------------------------------------------------------------------
\* paginate
PgRaise(why) ==
    /\ pgPc'    = "raised"
    /\ pgError' = why

\* Top of the while loop: build p and call _request.
PaginateRequest ==
    /\ pgPc = "call"
    /\ srvMode = "arbitrary" => Len(pageReqs) < MaxPageRequests
    /\ LET p == Params(per_page, cursor)
       IN  /\ StartRequest(p)
           /\ pageReqs' = Append(pageReqs, p)
    /\ pgPc' = "request"
    /\ UNCHANGED <<cursor, yielded, calls, pages, pgRetries, pgError, cfgVars, srvVars, ingVars,
                   extVars>>

\* rows of data that are dicts, in order
\* Variant: only the first row of a page is yielded.
DictIdsMut(items) == IF items = <<>> THEN <<>> ELSE <<Head(items).id>>

RECURSIVE DictIds(_)
DictIds(items) ==
    IF items = <<>> THEN <<>>
    ELSE LET rest == DictIds(Tail(items))
         IN  IF Head(items).kind = "dict" THEN <<Head(items).id>> \o rest ELSE rest

\* Variant: the next cursor is never read.
NextCursorOfMut(payload) == [kind |-> "none", v |-> 0]

\* `meta = payload.get("meta") or {}; meta.get("next_cursor") if isinstance(meta, dict) else None`
NextCursorOf(payload) ==
    IF payload.meta.kind = "obj" THEN payload.meta.next_cursor ELSE NoneV

\* _request returned: the rest of the loop body.
PaginateHandle ==
    /\ pgPc = "request"
    /\ rqPc = "returned"
    /\ LET payload == result.body.payload
           nc      == NextCursorOf(payload)
       IN  IF payload.data.kind # "list" THEN
               /\ PgRaise("data_not_list")
               /\ UNCHANGED <<cursor, yielded, pages>>
           ELSE
               /\ yielded' = yielded \o DictIds(payload.data.items)
               /\ pages'   = Append(pages, [meta |-> payload.meta,
                                             rows |-> Len(DictIds(payload.data.items))])
               /\ IF IsTerminalCursor(nc) THEN
                      /\ pgPc' = "done"
                      /\ UNCHANGED <<cursor, pgError>>
                  ELSE IF IntCoercible(nc) THEN
                      /\ cursor' = IntOf(nc)
                      /\ pgPc' = "call"
                      /\ UNCHANGED pgError
                  ELSE
                      /\ PgRaise("invalid_next_cursor")
                      /\ UNCHANGED cursor
    /\ LeaveRequest
    /\ UNCHANGED <<calls, pageReqs, pgRetries, cfgVars, srvVars, ingVars,
                   extVars>>

\* _request raised: the error leaves paginate.
PaginatePropagate ==
    /\ pgPc = "request"
    /\ rqPc = "raised"
    /\ PgRaise("request_failed")
    /\ LeaveRequest
    /\ UNCHANGED <<cursor, yielded, calls, pageReqs, pages, pgRetries, cfgVars, srvVars, ingVars,
                   extVars>>


----------------------------------------------------------------------------
\* Source records and row mappers.  A record is a function from the keys it
\* has to JSON values; a nested object is flattened: s["player"] tells
\* whether the value is a dict, s["player.id"] holds its "id".
BoolV(b) == [kind |-> "bool", v |-> IF b THEN 1 ELSE 0]
DictV    == [kind |-> "dict", v |-> 0]
TimeV    == [kind |-> "time", v |-> 0]   \* the string _now_iso() returns

\* s.get(k)
Get(s, k) == IF k \in DOMAIN s THEN s[k] ELSE NoneV

\* Variant: the default is not used.
GetOrMut(s, k, d) == IF k \in DOMAIN s THEN s[k] ELSE [kind |-> "none", v |-> 0]

\* s.get(k, d)
GetOr(s, k, d) == IF k \in DOMAIN s THEN s[k] ELSE d

\* `p = s.get(k) if isinstance(s.get(k), dict) else None;
\*  p.get(sub) if isinstance(p, dict) else None`
Nested(s, k, sub) == IF Get(s, k).kind = "dict" THEN Get(s, sub) ELSE NoneV

\* `g.get(sub, d) if isinstance(g, dict) else d`
NestedOr(s, k, sub, d) == IF Get(s, k).kind = "dict" THEN GetOr(s, sub, d) ELSE d

BasicStatFields ==
    {"passing_completions", "passing_attempts", "passing_yards", "passing_touchdowns",
     "passing_interceptions", "qbr", "qb_rating", "rushing_attempts", "rushing_yards",
     "rushing_touchdowns", "receptions", "receiving_yards", "receiving_touchdowns",
     "receiving_targets"}

map_player_season_stats(s) ==
    [f \in {"player_id", "season", "postseason", "games_played", "updated_at"}
           \cup BasicStatFields |->
        CASE f = "player_id"  -> Nested(s, "player", "player.id")
          [] f = "postseason" -> GetOr(s, "postseason", BoolV(FALSE))
          [] f = "updated_at" -> TimeV
          [] OTHER            -> Get(s, f)]

map_player_game_stats(s) ==
    [f \in {"player_id", "game_id", "season", "week", "postseason", "team_id",
            "updated_at"} \cup BasicStatFields |->
        CASE f = "player_id"  -> Nested(s, "player", "player.id")
          [] f = "game_id"    -> Nested(s, "game", "game.id")
          [] f = "season"     -> Nested(s, "game", "game.season")
          [] f = "week"       -> Nested(s, "game", "game.week")
          [] f = "postseason" -> NestedOr(s, "game", "game.postseason", BoolV(FALSE))
          [] f = "team_id"    -> Nested(s, "team", "team.id")
          [] f = "updated_at" -> TimeV
          [] OTHER            -> Get(s, f)]

AdvCommon(s, f) ==
    CASE f = "player_id"  -> Nested(s, "player", "player.id")
      [] f = "postseason" -> GetOr(s, "postseason", BoolV(FALSE))
      [] f = "updated_at" -> TimeV
      [] OTHER            -> Get(s, f)

AdvKeyFields == {"player_id", "season", "week", "postseason", "updated_at"}

map_adv_receiving(s) ==
    [f \in AdvKeyFields \cup
           {"receptions", "targets", "yards", "avg_intended_air_yards", "avg_yac",
            "avg_expected_yac", "avg_yac_above_expectation", "catch_percentage"} |->
        AdvCommon(s, f)]

map_adv_rushing(s) ==
    [f \in AdvKeyFields \cup
           {"rush_attempts", "rush_yards", "efficiency", "avg_rush_yards",
            "expected_rush_yards", "rush_yards_over_expected",
            "rush_yards_over_expected_per_att"} |->
        AdvCommon(s, f)]

map_adv_passing(s) ==
    [f \in AdvKeyFields \cup
           {"attempts", "completions", "pass_yards", "pass_touchdowns", "interceptions",
            "passer_rating", "completion_percentage",
            "completion_percentage_above_expectation", "avg_time_to_throw",
            "avg_intended_air_yards", "avg_completed_air_yards", "aggressiveness"} |->
        AdvCommon(s, f)]

----------------------------------------------------------------------------
\* ingest_stats_and_advanced
Phases == {"season_stats", "game_stats", "adv_receiving", "adv_rushing", "adv_passing"}

TableOf(ph) ==
    CASE ph = "season_stats"  -> "nfl_player_season_stats"
      [] ph = "game_stats"    -> "nfl_player_game_stats"
      [] ph = "adv_receiving" -> "nfl_advanced_receiving_stats"
      [] ph = "adv_rushing"   -> "nfl_advanced_rushing_stats"
      [] ph = "adv_passing"   -> "nfl_advanced_passing_stats"

OnConflictOf(ph) ==
    CASE ph = "season_stats" -> "player_id,season,postseason"
      [] ph = "game_stats"   -> "player_id,game_id"
      [] OTHER               -> "player_id,season,week,postseason"

MapOf(ph, s) ==
    CASE ph = "season_stats"  -> map_player_season_stats(s)
      [] ph = "game_stats"    -> map_player_game_stats(s)
      [] ph = "adv_receiving" -> map_adv_receiving(s)
      [] ph = "adv_rushing"   -> map_adv_rushing(s)
      [] ph = "adv_passing"   -> map_adv_passing(s)

Pos(ph, ix) == [phase |-> ph, ix |-> ix]

\* where control goes when a loop is entered or left
AdvStart ==
    IF include_advanced /\ Len(seasons) >= 1 THEN Pos("adv_receiving", 1) ELSE Pos("done", 0)
GameStart ==
    IF include_game_stats THEN Pos("game_stats", 0) ELSE AdvStart
SeasonStart ==
    IF include_season_stats /\ Len(seasons) >= 1 THEN Pos("season_stats", 1) ELSE GameStart

\* the accessor's sequence is exhausted and the last chunk is written
AfterLoop(ph, ix) ==
    CASE ph = "season_stats"  -> IF ix < Len(seasons) THEN Pos("season_stats", ix + 1)
                                                       ELSE GameStart
      [] ph = "game_stats"    -> AdvStart
      [] ph = "adv_receiving" -> Pos("adv_rushing", ix)
      [] ph = "adv_rushing"   -> Pos("adv_passing", ix)
      [] ph = "adv_passing"   -> IF ix < Len(seasons) THEN Pos("adv_receiving", ix + 1)
                                                       ELSE Pos("done", 0)

\* The accessor call that starts the loop at a position, with the arguments
\* the coordinator passes.
AccessorCall(pos) ==
    CASE pos.phase = "season_stats" ->
             [accessor |-> "iter_player_season_stats", season |-> seasons[pos.ix],
              postseason |-> FALSE]
      [] pos.phase = "game_stats" ->
             [accessor |-> "iter_player_game_stats", seasons |-> seasons]
      [] pos.phase = "adv_receiving" ->
             [accessor |-> "iter_advanced_receiving", season |-> seasons[pos.ix],
              week |-> 0, postseason |-> FALSE]
      [] pos.phase = "adv_rushing" ->
             [accessor |-> "iter_advanced_rushing", season |-> seasons[pos.ix],
              week |-> 0, postseason |-> FALSE]
      [] pos.phase = "adv_passing" ->
             [accessor |-> "iter_advanced_passing", season |-> seasons[pos.ix],
              week |-> 0, postseason |-> FALSE]

\* entering a loop evaluates its iterable: the accessor is called
EnterLoop(pos) ==
    bdlCalls' = IF pos.phase \in Phases THEN Append(bdlCalls, AccessorCall(pos))
                                        ELSE bdlCalls

\* Records a source accessor yields for the season it was called with:
\* with and without the embedded `player`.
ValidRecord(id, season) ==
    [x \in {"player", "player.id", "season", "week", "postseason", "game", "game.id",
            "game.season"} |->
        CASE x = "player"      -> DictV
          [] x = "player.id"   -> IntV(id)
          [] x = "week"        -> IntV(0)
          [] x = "postseason"  -> BoolV(FALSE)
          [] x = "game"        -> DictV
          [] x = "game.id"     -> IntV(id)
          [] OTHER             -> IntV(season)]

InvalidRecord(season) ==
    [x \in {"season", "week", "postseason"} |->
        CASE x = "week"       -> IntV(0)
          [] x = "postseason" -> BoolV(FALSE)
          [] OTHER            -> IntV(season)]

CurrentSeason == IF seasonIx >= 1 THEN seasons[seasonIx] ELSE seasons[1]

SourceRecords ==
    IF feed = "flood" THEN {InvalidRecord(CurrentSeason)}
    ELSE {ValidRecord(pulled + 1, CurrentSeason), InvalidRecord(CurrentSeason)}

\* whether the current accessor call has another record to yield
SourceHasMore ==
    IF feed = "flood" THEN ingPhase = "adv_receiving"
                           /\ invalidSeen["adv_receiving"] < FloodRows
                      ELSE pulled < MaxPulls

Counter(ph) == ph

\* supabase.upsert(table, chunk, on_conflict) for the loop ph: the call is
\* logged; it returns len(chunk), added to the loop's counter, or raises.
Upsert(ph, chunk, ok) ==
    /\ upserts' = Append(upserts, [table |-> TableOf(ph),
                                   on_conflict |-> OnConflictOf(ph),
                                   rows |-> chunk])
    /\ IF ok THEN /\ counts' = [counts EXCEPT ![Counter(ph)] = @ + Len(chunk)]
                  /\ UNCHANGED ingError
             ELSE /\ ingError' = "SupabaseError"
                  /\ UNCHANGED counts

\* The accessor yields a record: it is mapped and appended to buf; a full
\* buf is yielded by _chunked and upserted.
IngestRecord(s, ok) ==
    /\ ingPhase \in Phases
    /\ SourceHasMore
    /\ s \in SourceRecords
    /\ pulled' = pulled + 1
    /\ invalidSeen' = IF "player" \in DOMAIN s THEN invalidSeen
                       ELSE [invalidSeen EXCEPT ![ingPhase] = @ + 1]
    /\ LET row  == MapOf(ingPhase, s)
           full == Append(buf, row)
       IN  IF Len(full) >= batch_size
           THEN /\ Upsert(ingPhase, full, ok)
                /\ buf' = <<>>
                /\ ingPhase' = IF ok THEN ingPhase ELSE "raised"
           ELSE /\ ok
                /\ buf' = full
                /\ UNCHANGED <<upserts, counts, ingError, ingPhase>>
    /\ UNCHANGED <<ingArgs, seasonIx, feed, bdlCalls, clientVars, extVars>>

\* The accessor's sequence ends: _chunked yields the rest of buf, if any,
\* it is upserted, and control moves to the next loop or to the return.
IngestEndOfSource(ok) ==
    /\ ingPhase \in Phases
    /\ LET next == AfterLoop(ingPhase, seasonIx)
       IN  IF buf # <<>>
           THEN /\ Upsert(ingPhase, buf, ok)
                /\ ingPhase' = IF ok THEN next.phase ELSE "raised"
                /\ seasonIx' = IF ok THEN next.ix ELSE seasonIx
                /\ IF ok THEN EnterLoop(next) ELSE UNCHANGED bdlCalls
           ELSE /\ ok
                /\ ingPhase' = next.phase
                /\ seasonIx' = next.ix
                /\ EnterLoop(next)
                /\ UNCHANGED <<upserts, counts, ingError>>
    /\ buf' = <<>>
    /\ UNCHANGED <<ingArgs, feed, pulled, invalidSeen, clientVars, extVars>>

\* The accessor's sequence raises BallDontLieError (paginate failed on a
\* page): nothing catches it, the function is left.
IngestSourceRaises ==
    /\ ingPhase \in Phases
    /\ feed = "mixed"
    /\ ingPhase' = "raised"
    /\ ingError' = "BallDontLieError"
    /\ UNCHANGED <<ingArgs, seasonIx, buf, upserts, counts, feed, pulled, invalidSeen,
                   bdlCalls, clientVars, extVars>>

----------------------------------------------------------------------------
\* ingest_core
MaxTeams == 2        \* teams list_teams returns, at most

TeamFields ==
    {"id", "conference", "division", "location", "name", "full_name", "abbreviation",
     "updated_at"}

map_team(t) ==
    [f \in TeamFields |-> IF f = "updated_at" THEN TimeV ELSE Get(t, f)]

PlayerFields ==
    {"id", "first_name", "last_name", "position", "position_abbreviation", "height",
     "weight", "jersey_number", "college", "experience", "age", "team_id", "updated_at"}

map_player(p) ==
    [f \in PlayerFields |->
        CASE f = "team_id"    -> Nested(p, "team", "team.id")
          [] f = "updated_at" -> TimeV
          [] OTHER            -> Get(p, f)]

GameFields ==
    {"id", "season", "week", "date", "postseason", "status", "venue", "summary",
     "home_team_id", "visitor_team_id", "home_team_score", "home_team_q1", "home_team_q2",
     "home_team_q3", "home_team_q4", "home_team_ot", "visitor_team_score",
     "visitor_team_q1", "visitor_team_q2", "visitor_team_q3", "visitor_team_q4",
     "visitor_team_ot", "updated_at"}

map_game(g) ==
    [f \in GameFields |->
        CASE f = "home_team_id"    -> Nested(g, "home_team", "home_team.id")
          [] f = "visitor_team_id" -> Nested(g, "visitor_team", "visitor_team.id")
          [] f = "updated_at"      -> TimeV
          [] OTHER                 -> Get(g, f)]

CorePhases == {"teams", "players", "games"}

CoreTableOf(ph) ==
    CASE ph = "teams"   -> "nfl_teams"
      [] ph = "players" -> "nfl_players"
      [] ph = "games"   -> "nfl_games"

CoreMapOf(ph, r) ==
    CASE ph = "teams"   -> map_team(r)
      [] ph = "players" -> map_player(r)
      [] ph = "games"   -> map_game(r)

\* records the source returns
TeamRecord(id) == [x \in {"id"} |-> IntV(id)]
PlayerRecord(id, withTeam) ==
    IF withTeam
    THEN [x \in {"id", "team", "team.id"} |->
             CASE x = "team" -> DictV [] OTHER -> IntV(id)]
    ELSE [x \in {"id"} |-> IntV(id)]
GameRecord(id, season) ==
    [x \in {"id", "season", "home_team", "home_team.id"} |->
        CASE x = "home_team" -> DictV
          [] x = "season"    -> IntV(season)
          [] OTHER           -> IntV(id)]

CoreSourceRecords ==
    IF ingPhase = "players"
    THEN {PlayerRecord(pulled + 1, TRUE), PlayerRecord(pulled + 1, FALSE)}
    ELSE {GameRecord(pulled + 1, seasons[1])}

\* Variant: an upsert counts as one row.
CoreUpsertMut(ph, chunk, ok) ==
    /\ upserts' = Append(upserts, [table |-> CoreTableOf(ph), on_conflict |-> "id",
                                   rows |-> chunk])
    /\ IF ok THEN /\ counts' = [counts EXCEPT ![ph] = @ + 1]
                  /\ UNCHANGED ingError
             ELSE /\ ingError' = "SupabaseError"
                  /\ UNCHANGED counts

\* `x_upserted += supabase.upsert(table, chunk, on_conflict="id")`: the call
\* is logged; it returns len(chunk) or raises.
CoreUpsert(ph, chunk, ok) ==
    /\ upserts' = Append(upserts, [table |-> CoreTableOf(ph), on_conflict |-> "id",
                                   rows |-> chunk])
    /\ IF ok THEN /\ counts' = [counts EXCEPT ![ph] = @ + Len(chunk)]
                  /\ UNCHANGED ingError
             ELSE /\ ingError' = "SupabaseError"
                  /\ UNCHANGED counts

\* Variant: a failed teams upsert does not stop the function.
CoreTeamsMut(n, srcOk, ok) ==
    /\ ingPhase = "teams"
    /\ IF ~srcOk
       THEN /\ n = 0 /\ ok
            /\ ingPhase' = "raised"
            /\ ingError' = "BallDontLieError"
            /\ UNCHANGED <<upserts, counts, fetched, bdlCalls>>
       ELSE LET teams_rows == [i \in 1..n |-> map_team(TeamRecord(i))]
            IN  /\ fetched' = [fetched EXCEPT !["teams"] = n]
                /\ IF teams_rows # <<>>
                   THEN CoreUpsert("teams", teams_rows, ok)
                   ELSE ok /\ UNCHANGED <<upserts, counts, ingError>>
                /\ ingPhase' = "players"
                /\ bdlCalls' = Append(bdlCalls, [accessor |-> "iter_players"])
    /\ UNCHANGED <<ingArgs, seasonIx, buf, feed, pulled, invalidSeen, clientVars>>
    /\ UNCHANGED <<accVars, sbVars, sinkVars, rlVars, moreVars>>

\* Step 1: list_teams() returns n teams, or raises; the mapped rows are
\* upserted in one call unless there are none.
CoreTeams(n, srcOk, ok) ==
    /\ ingPhase = "teams"
    /\ IF ~srcOk
       THEN /\ n = 0 /\ ok
            /\ ingPhase' = "raised"
            /\ ingError' = "BallDontLieError"
            /\ UNCHANGED <<upserts, counts, fetched, bdlCalls>>
       ELSE LET teams_rows == [i \in 1..n |-> map_team(TeamRecord(i))]
            IN  /\ fetched' = [fetched EXCEPT !["teams"] = n]
                /\ IF teams_rows # <<>>
                   THEN CoreUpsert("teams", teams_rows, ok)
                   ELSE ok /\ UNCHANGED <<upserts, counts, ingError>>
                /\ ingPhase' = IF ok THEN "players" ELSE "raised"
                /\ bdlCalls' = IF ok THEN Append(bdlCalls, [accessor |-> "iter_players"])
                                     ELSE bdlCalls
    /\ UNCHANGED <<ingArgs, seasonIx, buf, feed, pulled, invalidSeen, clientVars>>
    /\ UNCHANGED <<accVars, sbVars, sinkVars, rlVars, moreVars>>

\* Variant: the buffer is yielded one record late.
CoreRecordMut(r, ok) ==
    /\ ingPhase \in {"players", "games"}
    /\ pulled < MaxPulls
    /\ r \in CoreSourceRecords
    /\ pulled' = pulled + 1
    /\ fetched' = [fetched EXCEPT ![ingPhase] = @ + 1]
    /\ LET full == Append(buf, CoreMapOf(ingPhase, r))
       IN  IF Len(full) > batch_size
           THEN /\ CoreUpsert(ingPhase, full, ok)
                /\ buf' = <<>>
                /\ ingPhase' = IF ok THEN ingPhase ELSE "raised"
           ELSE /\ ok
                /\ buf' = full
                /\ UNCHANGED <<upserts, counts, ingError, ingPhase>>
    /\ UNCHANGED <<ingArgs, seasonIx, feed, invalidSeen, bdlCalls, clientVars>>
    /\ UNCHANGED <<accVars, sbVars, sinkVars, rlVars, moreVars>>

\* Steps 2 and 3: the accessor yields a record; it is mapped and appended to
\* buf; a full buf is yielded by _chunked and upserted.
CoreRecord(r, ok) ==
    /\ ingPhase \in {"players", "games"}
    /\ pulled < MaxPulls
    /\ r \in CoreSourceRecords
    /\ pulled' = pulled + 1
    /\ fetched' = [fetched EXCEPT ![ingPhase] = @ + 1]
    /\ LET full == Append(buf, CoreMapOf(ingPhase, r))
       IN  IF Len(full) >= batch_size
           THEN /\ CoreUpsert(ingPhase, full, ok)
                /\ buf' = <<>>
                /\ ingPhase' = IF ok THEN ingPhase ELSE "raised"
           ELSE /\ ok
                /\ buf' = full
                /\ UNCHANGED <<upserts, counts, ingError, ingPhase>>
    /\ UNCHANGED <<ingArgs, seasonIx, feed, invalidSeen, bdlCalls, clientVars>>
    /\ UNCHANGED <<accVars, sbVars, sinkVars, rlVars, moreVars>>

\* The accessor's sequence ends: _chunked yields the rest of buf, if any,
\* it is upserted, and control moves to the games loop or to the return.
CoreEndOfSource(ok) ==
    /\ ingPhase \in {"players", "games"}
    /\ LET next == IF ingPhase = "players" THEN "games" ELSE "done"
           go   == /\ ingPhase' = next
                   /\ bdlCalls' = IF next = "games"
                                  THEN Append(bdlCalls, [accessor |-> "iter_games",
                                                         seasons |-> seasons])
                                  ELSE bdlCalls
       IN  IF buf # <<>>
           THEN /\ CoreUpsert(ingPhase, buf, ok)
                /\ IF ok THEN go ELSE ingPhase' = "raised" /\ UNCHANGED bdlCalls
           ELSE /\ ok
                /\ go
                /\ UNCHANGED <<upserts, counts, ingError>>
    /\ buf' = <<>>
    /\ UNCHANGED <<ingArgs, seasonIx, feed, pulled, invalidSeen, fetched, clientVars>>
    /\ UNCHANGED <<accVars, sbVars, sinkVars, rlVars, moreVars>>

\* Variant: the rows still buffered are written before the error leaves.
CoreSourceRaisesMut ==
    /\ ingPhase \in {"players", "games"}
    /\ ingPhase' = "raised"
    /\ ingError' = "BallDontLieError"
    /\ upserts' = IF buf # <<>>
                  THEN Append(upserts, [table |-> CoreTableOf(ingPhase), on_conflict |-> "id",
                                        rows |-> buf])
                  ELSE upserts
    /\ UNCHANGED <<ingArgs, seasonIx, buf, counts, feed, pulled, invalidSeen,
                   bdlCalls, fetched, clientVars, accVars, sbVars, sinkVars, rlVars,
                   moreVars>>

\* The accessor's sequence raises BallDontLieError: the function is left.
CoreSourceRaises ==
    /\ ingPhase \in {"players", "games"}
    /\ ingPhase' = "raised"
    /\ ingError' = "BallDontLieError"
    /\ UNCHANGED <<ingArgs, seasonIx, buf, upserts, counts, feed, pulled, invalidSeen,
                   bdlCalls, fetched, clientVars, accVars, sbVars, sinkVars, rlVars,
                   moreVars>>

----------------------------------------------------------------------------
\* SupabaseClient.upsert / select / count, and the sink they talk to
MaxRows == 2         \* rows of an upsert batch, at most
MaxSbCalls == 2      \* calls of the same upsert
SbMaxRetries == 1    \* max_retries of the sink client
MaxLimit == 2        \* select: limit at most
MaxOffset == 1       \* select: offset at most

\* a table row: its conflict key and the rest of it
Row(k, v) == [key |-> k, val |-> v]

NoRange == [given |-> FALSE, from |-> 0, to |-> 0]
RangeOf(from, to) == [given |-> TRUE, from |-> from, to |-> to]

\* what _request is called with: method, query params, headers, body
SbReq(method, on_conflict, prefer, json, body, range) ==
    [method |-> method, on_conflict |-> on_conflict, prefer |-> prefer,
     content_type_json |-> json, json_body |-> body,
     range_unit |-> IF range.given THEN "items" ELSE "", range |-> range]

\* _headers(prefer="resolution=merge-duplicates,return=minimal", content_type_json=True)
\* Variant: the merge resolution is not asked for.
UpsertPreferMut == {"return=minimal"}

UpsertPrefer == {"resolution=merge-duplicates", "return=minimal"}
CountPrefer  == {"count=exact"}

NoOp == [op |-> "none", rows |-> <<>>, on_conflict |-> "", limit |-> NoneV, offset |-> 0]
UpsertOp(rows, oc)   == [NoOp EXCEPT !.op = "upsert", !.rows = rows, !.on_conflict = oc]
SelectOp(limit, off) == [NoOp EXCEPT !.op = "select", !.limit = limit, !.offset = off]
CountOp              == [NoOp EXCEPT !.op = "count"]

NoOut == [kind |-> "none", value |-> 0, rows |-> <<>>, error |-> ""]
OutValue(n)   == [NoOut EXCEPT !.kind = "returned", !.value = n]
OutRows(rows) == [NoOut EXCEPT !.kind = "returned", !.rows = rows]
OutRaised(e)  == [NoOut EXCEPT !.kind = "raised", !.error = e]

\* Content-Range response header
CrAbsent   == [kind |-> "absent",  total |-> NoneV]
CrNoSlash  == [kind |-> "noslash", total |-> NoneV]          \* e.g. "items 0-24"
CrTotal(n) == [kind |-> "slash",   total |-> NumStr(n)]      \* e.g. "0-24/57"
CrStar     == [kind |-> "slash",   total |-> BadV]           \* e.g. "0-24/*"

JsonList(n) ==
    [kind |-> "json_list",
     payload |-> Payload(ListData([i \in 1..n |-> DictRow(i)]), MetaMissing)]

SinkExc == [kind |-> "exc", status |-> 0, body |-> NotJson, content_range |-> CrAbsent]
SinkResponse(s, b, cr) == [kind |-> "resp", status |-> s, body |-> b, content_range |-> cr]

\* the sink merges on the conflict key: a row replaces the one with its key
Merge(T, rows) ==
    LET new == {rows[i] : i \in 1..Len(rows)}
    IN  {t \in T : \A r \in new : r.key # t.key} \cup new

HasConflict(T, rows) ==
    \E t \in T, i \in 1..Len(rows) : rows[i].key = t.key

InitSbOff ==
    /\ sbOp = NoOp
    /\ sbPc = "off"
    /\ sbReqs = <<>>
    /\ sbOut = NoOut
    /\ sbCalls = 0
    /\ sinkTable = {}
    /\ sinkSeen = 0
    /\ sinkResp = SinkExc
    /\ sinkApplied = 0

\* Everything an operation of the sink client leaves alone.
SbFrame ==
    UNCHANGED <<sbOp, cfgVars, pgVars, srvVars, ingVars, coreVars, accVars, rlVars, moreVars>>

\* the operation hands one logical request to _request
SbIssue(req) ==
    /\ sbReqs' = Append(sbReqs, req)
    /\ StartRequest(NoParams)
    /\ sbPc' = "request"
    /\ sbOut' = NoOut
    /\ sinkSeen' = 0
    /\ UNCHANGED <<sinkTable, sinkResp, sinkApplied>>

\* the operation returns without a request
SbReturnEarly(out) ==
    /\ sbOut' = out
    /\ sbPc' = "done"
    /\ UNCHANGED <<sbReqs, rqVars, sinkVars>>

\* upsert up to the call of _request
UpsertCall ==
    /\ sbPc = "idle"
    /\ sbOp.op = "upsert"
    /\ sbCalls' = sbCalls + 1
    /\ IF sbOp.rows = <<>>
       THEN SbReturnEarly(OutValue(0))
       ELSE SbIssue(SbReq("POST", sbOp.on_conflict, UpsertPrefer, TRUE, sbOp.rows, NoRange))
    /\ SbFrame

\* Variant: an offset alone asks for a range.
SelectCallMut ==
    /\ sbPc = "idle"
    /\ sbOp.op = "select"
    /\ sbCalls' = sbCalls + 1
    /\ IF sbOp.limit.kind = "int" /\ sbOp.limit.v <= 0
       THEN SbReturnEarly(OutRows(<<>>))
       ELSE SbIssue(SbReq("GET", "", {}, FALSE, <<>>,
                          IF sbOp.limit.kind = "int"
                          THEN RangeOf(sbOp.offset, sbOp.offset + sbOp.limit.v - 1)
                          ELSE IF sbOp.offset > 0
                               THEN RangeOf(sbOp.offset, sbOp.offset + MaxRows)
                               ELSE NoRange))
    /\ SbFrame

\* select up to the call of _request
SelectCall ==
    /\ sbPc = "idle"
    /\ sbOp.op = "select"
    /\ sbCalls' = sbCalls + 1
    /\ IF sbOp.limit.kind = "int" /\ sbOp.limit.v <= 0
       THEN SbReturnEarly(OutRows(<<>>))
       ELSE SbIssue(SbReq("GET", "", {}, FALSE, <<>>,
                          IF sbOp.limit.kind = "int"
                          THEN RangeOf(sbOp.offset, sbOp.offset + sbOp.limit.v - 1)
                          ELSE NoRange))
    /\ SbFrame

\* count up to the call of _request
CountCall ==
    /\ sbPc = "idle"
    /\ sbOp.op = "count"
    /\ sbCalls' = sbCalls + 1
    /\ SbIssue(SbReq("HEAD", "", CountPrefer, FALSE, <<>>, NoRange))
    /\ SbFrame

CurrentReq == sbReqs[Len(sbReqs)]

\* What the sink and the network make of one attempt of the request: the
\* request is lost, or the sink answers (busy, refusing, or serving it) and
\* the answer arrives, or the sink serves it and the answer is lost.
SinkAnswers(req) ==
    LET busy   == SinkResponse(503, NotJson, CrAbsent)
        refuse == SinkResponse(400, NotJson, CrAbsent)
        served ==
            CASE req.method = "POST" ->
                     IF "resolution=merge-duplicates" \in req.prefer
                        \/ ~HasConflict(sinkTable, req.json_body)
                     THEN {SinkResponse(201, NotJson, CrAbsent)}
                     ELSE {SinkResponse(409, NotJson, CrAbsent)}
              [] req.method = "GET" ->
                     {SinkResponse(200, b, CrAbsent) :
                         b \in {JsonList(n) :
                                   n \in 0..(IF req.range.given
                                             THEN req.range.to - req.range.from + 1
                                             ELSE MaxRows)}
                               \cup {JsonOther, NotJson}}
              [] req.method = "HEAD" ->
                     {SinkResponse(200, NotJson, cr) :
                         cr \in {CrAbsent, CrNoSlash, CrStar,
                                 CrTotal(Cardinality(sinkTable))}}
    IN  [lost |-> {SinkExc}, answered |-> {busy, refuse} \cup served, served |-> served]

\* everything the transport may be left with for the attempt in flight
SinkChoices ==
    IF sbPc = "request" THEN SinkAnswers(CurrentReq).answered \cup {SinkExc} ELSE {}

\* The transport carries one attempt to the sink and settles what comes back.
SinkHandles(how, resp) ==
    /\ sbPc = "request"
    /\ rqPc = "loop"
    /\ sinkSeen = attempts
    /\ sinkSeen' = sinkSeen + 1
    /\ LET req     == CurrentReq
           ans     == SinkAnswers(req)
           written == /\ req.method = "POST"
                      /\ how \in {"answered", "answer_lost"}
                      /\ resp \in ans.served
                      /\ resp.status = 201
       IN  /\ CASE how = "lost"        -> resp = SinkExc
                [] how = "answered"    -> resp \in ans.answered
                [] how = "answer_lost" -> resp \in ans.served /\ req.method = "POST"
           /\ sinkResp' = IF how = "answered" THEN resp ELSE SinkExc
           /\ sinkTable' = IF written
                           THEN (IF "resolution=merge-duplicates" \in req.prefer
                                 THEN Merge(sinkTable, req.json_body)
                                 ELSE sinkTable \cup {req.json_body[i] :
                                                         i \in 1..Len(req.json_body)})
                           ELSE sinkTable
           /\ sinkApplied' = IF written THEN sinkApplied + 1 ELSE sinkApplied
    /\ UNCHANGED <<sbVars, rqVars, cfgVars, pgVars, srvVars, ingVars, coreVars, accVars,
                   rlVars, moreVars>>

\* what session.request gives the retry loop for the attempt in flight
DeliveredOutcome ==
    IF sinkResp.kind = "exc" THEN TransportExc
    ELSE Resp(sinkResp.status, RaAbsent, sinkResp.body)

\* One iteration of the loop of _request, on what the transport delivers.
SbOpAttempt ==
    /\ sbPc = "request"
    /\ sinkSeen = attempts + 1
    /\ SbRequestAttempt(DeliveredOutcome)

\* `cr = resp.headers.get("Content-Range") or ""; if "/" in cr:
\*  return int(cr.split("/", 1)[1].strip())`, else SupabaseError
CountOf(cr) ==
    IF cr.kind = "slash"
    THEN IF IntCoercible(cr.total) THEN OutValue(cr.total.v) ELSE OutRaised("ValueError")
    ELSE OutRaised("SupabaseError")

\* `data = resp.json(); if not isinstance(data, list): raise SupabaseError`
RowsOf(body) ==
    CASE body.kind = "not_json"  -> OutRaised("JSONDecodeError")
      [] body.kind = "json_list" -> OutRows(DictIds(body.payload.data.items))
      [] OTHER                   -> OutRaised("SupabaseError")

\* _request has returned or raised: the rest of upsert, select or count.
SbOpFinish ==
    /\ sbPc = "request"
    /\ rqPc \in {"returned", "raised"}
    /\ sbOut' =
          IF rqPc = "raised" THEN OutRaised(result.error)
          ELSE IF ~Is2xx(result.status)
               THEN OutRaised("SupabaseError")
          ELSE CASE sbOp.op = "upsert" -> OutValue(Len(sbOp.rows))
                 [] sbOp.op = "select" -> RowsOf(result.body)
                 [] sbOp.op = "count"  -> CountOf(sinkResp.content_range)
    /\ sbPc' = "done"
    /\ LeaveRequest
    /\ sinkSeen' = 0
    /\ UNCHANGED <<sbReqs, sbCalls, sinkTable, sinkResp, sinkApplied>>
    /\ SbFrame

\* The caller repeats the identical upsert.
UpsertAgain ==
    /\ sbPc = "done"
    /\ sbOp.op = "upsert"
    /\ sbCalls < MaxSbCalls
    /\ sbPc' = "idle"
    /\ UNCHANGED <<sbReqs, sbOut, sbCalls, rqVars, sinkVars>>
    /\ SbFrame

----------------------------------------------------------------------------
\* RateLimiter.  Time is counted in ticks of a clock that never runs back;
\* the injected sleep blocks for the time asked, or longer.
MaxClock    == 7     \* the clock is followed up to this time
MaxInterval == 2     \* min_interval_seconds at most
MaxWaits    == 3     \* calls of wait()
MaxOversleep == 1    \* ticks a sleep may last beyond the time asked

\* Variant: the time already elapsed is not taken off.
RemainingMut(min, now, last) == min

\* `elapsed = now - self._last_ts; remaining = self.min_interval_seconds - elapsed`
Remaining(min, now, last) == min - (now - last)

InitRlOff ==
    /\ min_interval_seconds = 0
    /\ last_ts = 0
    /\ clock = 0
    /\ waitLog = <<>>

\* Time passes between two calls of wait().
Tick ==
    /\ clock < MaxClock
    /\ clock' = clock + 1
    /\ UNCHANGED <<min_interval_seconds, last_ts, waitLog>>
    /\ UNCHANGED <<cfgVars, rqVars, pgVars, srvVars, ingVars, coreVars, accVars, sbVars,
                   sinkVars, moreVars>>

\* One call of wait(), entry to return.
Wait(over) ==
    /\ Len(waitLog) < MaxWaits
    /\ LET now == clock
       IN  IF last_ts <= 0
           THEN /\ over = 0
                /\ last_ts' = now
                /\ clock' = clock
                /\ waitLog' = Append(waitLog, [entered |-> now, slept |-> 0,
                                               returned |-> now])
           ELSE LET remaining == Remaining(min_interval_seconds, now, last_ts)
                    slept     == IF remaining > 0 THEN remaining ELSE 0
                    back      == IF remaining > 0 THEN now + remaining + over ELSE now
                IN  /\ remaining <= 0 => over = 0
                    /\ back <= MaxClock + MaxInterval + MaxOversleep
                    /\ clock' = back
                    /\ last_ts' = back
                    /\ waitLog' = Append(waitLog, [entered |-> now, slept |-> slept,
                                                   returned |-> back])
    /\ UNCHANGED min_interval_seconds
    /\ UNCHANGED <<cfgVars, rqVars, pgVars, srvVars, ingVars, coreVars, accVars, sbVars,
                   sinkVars, moreVars>>

----------------------------------------------------------------------------
\* The per-season accessors: each builds `params` and yields from paginate.
BoolStr(b) == [kind |-> "boolstr", v |-> IF b THEN 1 ELSE 0]   \* "true" / "false"

AccCall(a, season, week, postseason) ==
    [accessor |-> a, season |-> season, week |-> week, postseason |-> postseason]
NoAccCall == AccCall("none", 0, 0, FALSE)

\* {"season": int(season), "postseason": "true" if postseason else "false"}
iter_player_season_stats(c) ==
    [k \in {"season", "postseason"} |->
        IF k = "season" THEN IntV(c.season) ELSE BoolStr(c.postseason)]

\* {"season": int(season), "week": int(week), "postseason": "1" if postseason else "0"}
iter_advanced(c) ==
    [k \in {"season", "week", "postseason"} |->
        CASE k = "season" -> IntV(c.season)
          [] k = "week"   -> IntV(c.week)
          [] OTHER        -> NumStr(IF c.postseason THEN 1 ELSE 0)]

AdvancedAccessors ==
    {"iter_advanced_receiving", "iter_advanced_rushing", "iter_advanced_passing"}

ParamsOfAccessor(c) ==
    IF c.accessor = "iter_player_season_stats" THEN iter_player_season_stats(c)
                                               ELSE iter_advanced(c)

\* The accessor is called and its generator started: paginate is entered
\* with the params built.
CallAccessor ==
    /\ pgPc = "idle"
    /\ accParams' = ParamsOfAccessor(accCall)
    /\ pgPc' = "call"
    /\ UNCHANGED <<cursor, yielded, calls, pageReqs, pages, pgRetries, pgError>>
    /\ UNCHANGED <<accCall, coreVars, sbVars, sinkVars, rlVars, cfgVars, rqVars, srvVars,
                   ingVars, moreVars>>

\* `p = dict(params or {}); p.setdefault("per_page", ...); p["cursor"] = cursor`:
\* the params of the i-th session.request call of the run
SentParams(i) ==
    [k \in DOMAIN accParams \cup {"per_page"}
           \cup (IF calls[i].cursor.kind = "none" THEN {} ELSE {"cursor"}) |->
        CASE k = "cursor"   -> calls[i].cursor
          [] k = "per_page" -> IF k \in DOMAIN accParams THEN accParams[k]
                                                          ELSE IntV(calls[i].per_page)
          [] OTHER          -> accParams[k]]

----------------------------------------------------------------------------
\* Specifications
InitMoreOff ==
    /\ mapper = "none"
    /\ record = <<>>
    /\ mappedRow = <<>>
    /\ mainPc = "off"
    /\ advanced_only = FALSE
    /\ exitCode = NoneV
    /\ logged = <<>>

InitExtOff ==
    /\ fetched = [r \in CorePhases |-> 0]
    /\ accCall = NoAccCall
    /\ accParams = <<>>
    /\ InitSbOff
    /\ InitRlOff
    /\ InitMoreOff

InitIngOff ==
    /\ seasons = <<>>
    /\ batch_size = 1
    /\ include_season_stats = FALSE
    /\ include_game_stats = FALSE
    /\ include_advanced = FALSE
    /\ advanced_kw = "absent"
    /\ ingPhase = "off"
    /\ seasonIx = 0
    /\ buf = <<>>
    /\ upserts = <<>>
    /\ counts = [ph \in Phases |-> 0]
    /\ ingError = ""
    /\ feed = "mixed"
    /\ pulled = 0
    /\ invalidSeen = [ph \in Phases |-> 0]
    /\ bdlCalls = <<>>

InitRq ==
    /\ rqPc = "idle"
    /\ reqParams = NoParams
    /\ attempt = 0
    /\ backoff = InitialBackoff
    /\ sleeps = <<>>
    /\ lastFail = NoFail
    /\ rlWaits = 0
    /\ attempts = 0
    /\ result = NoResult
    /\ events = <<>>

InitPgOff ==
    /\ pgPc = "off"
    /\ cursor = NoCursor
    /\ yielded = <<>>
    /\ calls = <<>>
    /\ pageReqs = <<>>
    /\ pages = <<>>
    /\ pgRetries = 0
    /\ pgError = ""
    /\ srvMode = "exact"
    /\ srvN = 0

\* One logical request of either client.
InitRetry ==
    /\ client \in {"bdl", "sb"}
    /\ max_retries \in 0..MaxRetries
    /\ per_page = 1
    /\ InitRq
    /\ InitPgOff
    /\ InitIngOff
    /\ InitExtOff

NextRetry ==
    \/ CallRequest
    \/ \E o \in TransportOutcomes(ServerPayloads) : BdlRequestAttempt(o)
    \/ \E o \in TransportOutcomes(ServerPayloads) : SbRequestAttempt(o)

SpecRetry == InitRetry /\ [][NextRetry]_vars

\* One run of BallDontLieNFLClient.paginate against a source server.  A
\* server bound by no protocol is met without a retry and with one.
ArbRetries == {0, 1}

InitPag ==
    /\ client = "bdl"
    /\ max_retries \in 0..PagMaxRetries
    /\ per_page \in 1..MaxPerPage
    /\ InitRq
    /\ pgPc = "call"
    /\ cursor = NoCursor
    /\ yielded = <<>>
    /\ calls = <<>>
    /\ pageReqs = <<>>
    /\ pages = <<>>
    /\ pgRetries = 0
    /\ pgError = ""
    /\ srvMode \in {"exact", "eager", "arbitrary"}
    /\ srvN \in 0..MaxRecords
    /\ srvMode = "arbitrary" => srvN = 0 /\ per_page = 1 /\ max_retries \in ArbRetries
    /\ InitIngOff
    /\ InitExtOff

NextPag ==
    \/ PaginateRequest
    \/ \E o \in TransportOutcomes(ServerPayloads) : BdlRequestAttempt(o)
    \/ PaginateHandle
    \/ PaginatePropagate

SpecPag == InitPag /\ [][NextPag]_vars

\* One call of ingest_stats_and_advanced against stub source and sink, with
\* the argument combinations main() uses and the one of the tests.  A mixed
\* feed yields records with and without `player`; the flood feed is the
\* abort test's: the receiving accessor yields FloodRows records without
\* `player`, the other accessors none, batch_size is FloodBatch.  A caller
\* that passes advanced_weeks=[0, 1] and advanced_include_postseason=True,
\* as the loop-shape test does, names parameters the function does not have.
FirstSeason == 2024

InitIng ==
    /\ client = "bdl" /\ max_retries = 0 /\ per_page = 1
    /\ InitRq
    /\ InitPgOff
    /\ \E n \in 1..MaxSeasons : seasons = [i \in 1..n |-> FirstSeason + i - 1]
    /\ batch_size \in 1..MaxBatch \cup {FloodBatch}
    /\ \E f \in {<<TRUE, TRUE, FALSE>>, <<TRUE, TRUE, TRUE>>, <<FALSE, FALSE, TRUE>>} :
          /\ include_season_stats = f[1]
          /\ include_game_stats = f[2]
          /\ include_advanced = f[3]
    /\ feed \in {"mixed", "flood"}
    /\ feed = "flood" <=> batch_size = FloodBatch
    /\ feed = "flood" => ~include_season_stats /\ Len(seasons) = 1
    /\ advanced_kw \in {"absent", "given"}
    /\ advanced_kw = "given" => feed = "mixed" /\ batch_size = 1
    /\ IF advanced_kw = "given"
       THEN \* the signature has no such parameters: binding the call fails
            /\ ingPhase = "raised"
            /\ ingError = "TypeError"
            /\ seasonIx = 0
            /\ bdlCalls = <<>>
       ELSE /\ ingPhase = SeasonStart.phase
            /\ ingError = ""
            /\ seasonIx = SeasonStart.ix
            /\ bdlCalls = IF SeasonStart.phase \in Phases
                             THEN <<AccessorCall(SeasonStart)>> ELSE <<>>
    /\ buf = <<>>
    /\ upserts = <<>>
    /\ counts = [ph \in Phases |-> 0]
    /\ pulled = 0
    /\ invalidSeen = [ph \in Phases |-> 0]
    /\ InitExtOff

NextIng ==
    \/ \E s \in SourceRecords, ok \in BOOLEAN : IngestRecord(s, ok)
    \/ \E ok \in BOOLEAN : IngestEndOfSource(ok)
    \/ IngestSourceRaises

SpecIng == InitIng /\ [][NextIng]_vars

\* One call of a per-season accessor, iterated to its end.
AccSeasons == {2024}
AccWeeks   == {0, 2}

InitAcc ==
    /\ client = "bdl"
    /\ max_retries \in 0..PagMaxRetries
    /\ per_page = 1
    /\ InitRq
    /\ pgPc = "idle"
    /\ cursor = NoCursor
    /\ yielded = <<>>
    /\ calls = <<>>
    /\ pageReqs = <<>>
    /\ pages = <<>>
    /\ pgRetries = 0
    /\ pgError = ""
    /\ srvMode = "exact"
    /\ srvN \in 0..MaxPerPage
    /\ InitIngOff
    /\ fetched = [r \in CorePhases |-> 0]
    /\ InitSbOff
    /\ InitRlOff
    /\ InitMoreOff
    /\ \E a \in AdvancedAccessors \cup {"iter_player_season_stats"},
          season \in AccSeasons, week \in AccWeeks, postseason \in BOOLEAN :
          /\ a = "iter_player_season_stats" => week = 0
          /\ accCall = AccCall(a, season, week, postseason)
    /\ accParams = <<>>

NextAcc ==
    \/ CallAccessor
    \/ PaginateRequest
    \/ \E o \in TransportOutcomes(ServerPayloads) : BdlRequestAttempt(o)
    \/ PaginateHandle
    \/ PaginatePropagate

SpecAcc == InitAcc /\ [][NextAcc]_vars

\* Calls of one operation of SupabaseClient against a merging sink.
UpsertBatches ==
    {<<>>} \cup {[i \in 1..n |-> Row(i, 1)] : n \in 1..MaxRows}

InitSb ==
    /\ client = "sb"
    /\ max_retries \in 0..SbMaxRetries
    /\ per_page = 1
    /\ InitRq
    /\ InitPgOff
    /\ InitIngOff
    /\ fetched = [r \in CorePhases |-> 0]
    /\ accCall = NoAccCall
    /\ accParams = <<>>
    /\ sbOp \in {UpsertOp(rows, oc) : rows \in UpsertBatches, oc \in {"", "id"}}
               \cup {SelectOp(l, off) :
                        l \in {NoneV} \cup {IntV(n) : n \in (0 - 1)..MaxLimit},
                        off \in 0..MaxOffset}
               \cup {CountOp}
    /\ sbPc = "idle"
    /\ sbReqs = <<>>
    /\ sbOut = NoOut
    /\ sbCalls = 0
    /\ sinkTable \in {{}, {Row(1, 0), Row(MaxRows + 1, 0)}}
    /\ sinkSeen = 0
    /\ sinkResp = SinkExc
    /\ sinkApplied = 0
    /\ InitRlOff
    /\ InitMoreOff

NextSb ==
    \/ UpsertCall
    \/ SelectCall
    \/ CountCall
    \/ \E resp \in SinkChoices,
          how \in {"lost", "answered", "answer_lost"} : SinkHandles(how, resp)
    \/ SbOpAttempt
    \/ SbOpFinish
    \/ UpsertAgain

SpecSb == InitSb /\ [][NextSb]_vars

\* A fresh RateLimiter and the calls of wait() made on it.
InitRl ==
    /\ client = "bdl" /\ max_retries = 0 /\ per_page = 1
    /\ InitRq
    /\ InitPgOff
    /\ InitIngOff
    /\ fetched = [r \in CorePhases |-> 0]
    /\ accCall = NoAccCall
    /\ accParams = <<>>
    /\ InitSbOff
    /\ min_interval_seconds \in 0..MaxInterval
    /\ last_ts = 0
    /\ clock = 1
    /\ waitLog = <<>>
    /\ InitMoreOff

NextRl ==
    \/ Tick
    \/ \E over \in 0..MaxOversleep : Wait(over)

SpecRl == InitRl /\ [][NextRl]_vars

\* One call of ingest_core against stub source and sink.
InitCore ==
    /\ client = "bdl" /\ max_retries = 0 /\ per_page = 1
    /\ InitRq
    /\ InitPgOff
    /\ \E n \in 1..MaxSeasons : seasons = [i \in 1..n |-> FirstSeason + i - 1]
    /\ batch_size \in 1..MaxBatch
    /\ include_season_stats = FALSE
    /\ include_game_stats = FALSE
    /\ include_advanced = FALSE
    /\ advanced_kw = "absent"
    /\ ingPhase = "teams"
    /\ seasonIx = 0
    /\ buf = <<>>
    /\ upserts = <<>>
    /\ counts = [r \in CorePhases |-> 0]
    /\ ingError = ""
    /\ feed = "mixed"
    /\ pulled = 0
    /\ invalidSeen = [ph \in Phases |-> 0]
    /\ bdlCalls = <<[accessor |-> "list_teams"]>>
    /\ InitExtOff

NextCore ==
    \/ \E n \in 0..MaxTeams, srcOk \in BOOLEAN, ok \in BOOLEAN : CoreTeams(n, srcOk, ok)
    \/ \E r \in CoreSourceRecords, ok \in BOOLEAN : CoreRecord(r, ok)
    \/ \E ok \in BOOLEAN : CoreEndOfSource(ok)
    \/ CoreSourceRaises

SpecCore == InitCore /\ [][NextCore]_vars

\* One call of a row mapper on one source record.
Mappers ==
    {"map_team", "map_player", "map_game", "map_player_season_stats",
     "map_player_game_stats", "map_adv_receiving", "map_adv_rushing", "map_adv_passing"}

MapperOf(m, s) ==
    CASE m = "map_team"                -> map_team(s)
      [] m = "map_player"              -> map_player(s)
      [] m = "map_game"                -> map_game(s)
      [] m = "map_player_season_stats" -> map_player_season_stats(s)
      [] m = "map_player_game_stats"   -> map_player_game_stats(s)
      [] m = "map_adv_receiving"       -> map_adv_receiving(s)
      [] m = "map_adv_rushing"         -> map_adv_rushing(s)
      [] m = "map_adv_passing"         -> map_adv_passing(s)

\* the keys under which a source record embeds another object
NestedKeys(m) ==
    CASE m = "map_team"              -> {}
      [] m = "map_player"            -> {"team"}
      [] m = "map_game"              -> {"home_team", "visitor_team"}
      [] m = "map_player_game_stats" -> {"player", "team", "game"}
      [] OTHER                       -> {"player"}

SubKeys(k) ==
    CASE k = "player"       -> {"player.id"}
      [] k = "team"         -> {"team.id"}
      [] k = "game"         -> {"game.id", "game.season", "game.week", "game.postseason"}
      [] k = "home_team"    -> {"home_team.id"}
      [] k = "visitor_team" -> {"visitor_team.id"}

\* the records the advanced-stats endpoints return, field by field
AdvSourceFields(m) ==
    CASE m = "map_adv_rushing" ->
             <<"season", "week", "postseason", "avg_time_to_los", "expected_rush_yards",
               "rush_attempts", "rush_pct_over_expected", "rush_touchdowns", "rush_yards",
               "rush_yards_over_expected", "rush_yards_over_expected_per_att",
               "efficiency", "percent_attempts_gte_eight_defenders", "avg_rush_yards">>
      [] m = "map_adv_passing" ->
             <<"season", "week", "postseason", "aggressiveness", "attempts",
               "avg_air_distance", "avg_air_yards_differential", "avg_air_yards_to_sticks",
               "avg_completed_air_yards", "avg_intended_air_yards", "avg_time_to_throw",
               "completion_percentage", "completion_percentage_above_expectation",
               "completions", "expected_completion_percentage", "games_played",
               "interceptions", "max_air_distance", "max_completed_air_distance",
               "pass_touchdowns", "pass_yards", "passer_rating">>
      [] m = "map_adv_receiving" ->
             <<"season", "week", "postseason", "avg_cushion", "avg_expected_yac",
               "avg_intended_air_yards", "avg_separation", "avg_yac",
               "avg_yac_above_expectation", "catch_percentage",
               "percent_share_of_intended_air_yards", "rec_touchdowns", "receptions",
               "targets", "yards">>
      [] OTHER -> <<>>

\* the plain fields of a complete source record
SourceFields(m) ==
    CASE m = "map_team"   -> TeamFields \ {"updated_at"}
      [] m = "map_player" -> PlayerFields \ {"team_id", "updated_at"}
      [] m = "map_game"   -> GameFields \ {"home_team_id", "visitor_team_id", "updated_at"}
      [] m = "map_player_season_stats" ->
             {"season", "postseason", "games_played"} \cup BasicStatFields
      [] m = "map_player_game_stats" -> BasicStatFields
      [] OTHER -> {AdvSourceFields(m)[i] : i \in DOMAIN AdvSourceFields(m)}

\* every field of a record carries its own value
FieldValue(m, f) ==
    IF f = "postseason" THEN BoolV(TRUE)
    ELSE IF AdvSourceFields(m) = <<>> THEN IntV(1)
    ELSE IntV(CHOOSE i \in DOMAIN AdvSourceFields(m) : AdvSourceFields(m)[i] = f)

SubValue(x) ==
    CASE x = "player.id"       -> IntV(466)
      [] x = "team.id"         -> IntV(6)
      [] x = "game.id"         -> IntV(7001)
      [] x = "game.season"     -> IntV(2024)
      [] x = "game.week"       -> IntV(1)
      [] x = "game.postseason" -> BoolV(TRUE)
      [] x = "home_team.id"    -> IntV(14)
      [] x = "visitor_team.id" -> IntV(6)

\* which plain fields a record has
PlainChoices == {"none", "keys", "no_postseason", "full"}
PlainKeys(m, plain) ==
    CASE plain = "none"          -> {}
      [] plain = "keys"          -> SourceFields(m) \cap {"id", "season", "week"}
      [] plain = "no_postseason" -> SourceFields(m) \ {"postseason"}
      [] plain = "full"          -> SourceFields(m)

\* what a record has under a nested key: nothing, null, a value that is not
\* a mapping, a mapping without fields, a mapping with its fields
NestedShapes == {"absent", "null", "other", "dict_empty", "dict"}

SourceRecord(m, plain, shape) ==
    LET nested == {k \in NestedKeys(m) : shape[k] # "absent"}
        subs   == UNION {SubKeys(k) : k \in {n \in nested : shape[n] = "dict"}}
    IN  [x \in PlainKeys(m, plain) \cup nested \cup subs |->
            IF x \in nested
            THEN CASE shape[x] = "null"  -> NoneV
                   [] shape[x] = "other" -> BadV
                   [] OTHER              -> DictV
            ELSE IF x \in subs THEN SubValue(x)
            ELSE FieldValue(m, x)]

RecordsFor(m) ==
    {SourceRecord(m, plain, shape) :
        plain \in PlainChoices, shape \in [NestedKeys(m) -> NestedShapes]}

InitMap ==
    /\ client = "bdl" /\ max_retries = 0 /\ per_page = 1
    /\ InitRq
    /\ InitPgOff
    /\ InitIngOff
    /\ fetched = [r \in CorePhases |-> 0]
    /\ accCall = NoAccCall
    /\ accParams = <<>>
    /\ InitSbOff
    /\ InitRlOff
    /\ mapper \in Mappers
    /\ record \in RecordsFor(mapper)
    /\ mappedRow = <<>>
    /\ mainPc = "off"
    /\ advanced_only = FALSE
    /\ exitCode = NoneV
    /\ logged = <<>>

\* the mapper is called and returns its row
CallMapper ==
    /\ mappedRow = <<>>
    /\ mappedRow' = MapperOf(mapper, record)
    /\ UNCHANGED <<mapper, record, mainVars>>
    /\ UNCHANGED <<cfgVars, rqVars, pgVars, srvVars, ingVars, coreVars, accVars, sbVars,
                   sinkVars, rlVars>>

NextMap == CallMapper

SpecMap == InitMap /\ [][NextMap]_vars

\* main(), the path taken when SUPABASE_URL, SUPABASE_SERVICE_ROLE_KEY and
\* BALLDONTLIE_API_KEY are set: ingest_core unless BDL_ADVANCED_ONLY, then
\* ingest_stats_and_advanced, both with the default batch size, against stub
\* source and sink.  exitCode is the exit status of the process.
DefaultBatch == 500

\* entry of ingest_stats_and_advanced with the arguments main() passes
EnterStats ==
    /\ ingPhase' = SeasonStart.phase
    /\ seasonIx' = SeasonStart.ix
    /\ bdlCalls' = IF SeasonStart.phase \in Phases THEN <<AccessorCall(SeasonStart)>>
                                                   ELSE <<>>
    /\ buf' = <<>>
    /\ upserts' = <<>>
    /\ counts' = [ph \in Phases |-> 0]
    /\ pulled' = 0
    /\ fetched' = [r \in CorePhases |-> 0]
    /\ UNCHANGED <<ingArgs, ingError, feed, invalidSeen>>

InitMain ==
    /\ client = "bdl" /\ max_retries = 0 /\ per_page = 1
    /\ InitRq
    /\ InitPgOff
    /\ \E n \in 1..MaxSeasons : seasons = [i \in 1..n |-> FirstSeason + i - 1]
    /\ batch_size = DefaultBatch
    /\ advanced_only \in BOOLEAN
    /\ include_advanced \in BOOLEAN
    /\ advanced_only => include_advanced
    /\ include_season_stats = ~advanced_only
    /\ include_game_stats = ~advanced_only
    /\ advanced_kw = "absent"
    /\ IF advanced_only
       THEN /\ mainPc = "stats"
            /\ logged = <<"advanced_only">>
            /\ ingPhase = SeasonStart.phase
            /\ seasonIx = SeasonStart.ix
            /\ bdlCalls = <<AccessorCall(SeasonStart)>>
            /\ counts = [ph \in Phases |-> 0]
       ELSE /\ mainPc = "core"
            /\ logged = <<>>
            /\ ingPhase = "teams"
            /\ seasonIx = 0
            /\ bdlCalls = <<[accessor |-> "list_teams"]>>
            /\ counts = [r \in CorePhases |-> 0]
    /\ buf = <<>>
    /\ upserts = <<>>
    /\ ingError = ""
    /\ feed = "mixed"
    /\ pulled = 0
    /\ invalidSeen = [ph \in Phases |-> 0]
    /\ fetched = [r \in CorePhases |-> 0]
    /\ accCall = NoAccCall
    /\ accParams = <<>>
    /\ InitSbOff
    /\ InitRlOff
    /\ mapper = "none"
    /\ record = <<>>
    /\ mappedRow = <<>>
    /\ exitCode = NoneV

MainFrame == UNCHANGED <<clientVars, accVars, sbVars, sinkVars, rlVars, mapVars, advanced_only>>

\* ingest_core returned: its summary is logged and ingest_stats_and_advanced
\* is called.
MainCoreReturns ==
    /\ mainPc = "core"
    /\ ingPhase = "done"
    /\ logged' = Append(logged, "core_complete")
    /\ mainPc' = "stats"
    /\ EnterStats
    /\ UNCHANGED exitCode
    /\ MainFrame

\* ingest_stats_and_advanced returned: its summary is logged, `return 0`.
MainStatsReturns ==
    /\ mainPc = "stats"
    /\ ingPhase = "done"
    /\ logged' = Append(logged, "stats_complete")
    /\ mainPc' = "returned"
    /\ exitCode' = IntV(0)
    /\ UNCHANGED <<ingVars, coreVars>>
    /\ MainFrame

\* `except SupabaseError as e`: the error and the schema instruction are
\* logged, `return 1`.
MainCatches ==
    /\ mainPc \in {"core", "stats"}
    /\ ingPhase = "raised"
    /\ ingError = "SupabaseError"
    /\ logged' = logged \o <<"error", "schema_instruction">>
    /\ mainPc' = "returned"
    /\ exitCode' = IntV(1)
    /\ UNCHANGED <<ingVars, coreVars>>
    /\ MainFrame

\* Any other exception passes the except clause and leaves main(): the
\* interpreter prints the traceback and the process ends with status 1.
MainPropagates ==
    /\ mainPc \in {"core", "stats"}
    /\ ingPhase = "raised"
    /\ ingError # "SupabaseError"
    /\ mainPc' = "raised"
    /\ exitCode' = IntV(1)
    /\ UNCHANGED <<logged, ingVars, coreVars>>
    /\ MainFrame

NextMain ==
    \/ \E n \in 0..MaxTeams, srcOk \in BOOLEAN, ok \in BOOLEAN : CoreTeams(n, srcOk, ok)
    \/ \E r \in CoreSourceRecords, ok \in BOOLEAN : CoreRecord(r, ok)
    \/ \E ok \in BOOLEAN : CoreEndOfSource(ok)
    \/ CoreSourceRaises
    \/ MainCoreReturns
    \/ \E s \in SourceRecords, ok \in BOOLEAN : IngestRecord(s, ok)
    \/ \E ok \in BOOLEAN : IngestEndOfSource(ok)
    \/ IngestSourceRaises
    \/ MainStatsReturns
    \/ MainCatches
    \/ MainPropagates

SpecMain == InitMain /\ [][NextMain]_vars

----------------------------------------------------------------------------
\* Vocabulary of the properties
CeilDiv(n, p) == (n + p - 1) \div p
Max(a, b)     == IF a >= b THEN a ELSE b
Ids(n)        == [i \in 1..n |-> i]

PagDone    == pgPc = "done"
ExactRun   == PagDone /\ srvMode = "exact"
HonestRun  == PagDone /\ srvMode \in {"exact", "eager"}

\* Shape of the requests of a run: the first page request carries per_page
\* and no cursor, every later one a cursor; without a failed attempt the
\* HTTP calls are the page requests.
RequestShape ==
    /\ pageReqs[1] = [per_page |-> per_page, cursor |-> NoneV]
    /\ \A k \in 2..Len(pageReqs) :
          pageReqs[k].per_page = per_page /\ pageReqs[k].cursor.kind = "int"
    /\ Len(calls) = Len(pageReqs) + pgRetries
    /\ pgRetries = 0 => calls = pageReqs

\* C1 as stated: a source of N records in pages of size P is exhausted with
\* exactly ceil(N/P) HTTP requests, yielding the N records in server order.
C1_AsStated ==
    (ExactRun /\ pgRetries = 0) =>
        /\ yielded = Ids(srvN)
        /\ Len(calls) = CeilDiv(srvN, per_page)
        /\ RequestShape

\* C1 amended: exhausting paginate over N records in pages of size P yields
\* exactly the N records in server order with max(1, ceil(N/P)) page
\* requests (an empty source still costs one request), one HTTP request per
\* page request plus one per retried attempt; only the first page request
\* lacks a cursor.
C1_PaginationTermination ==
    ExactRun =>
        /\ yielded = Ids(srvN)
        /\ Len(pageReqs) = Max(1, CeilDiv(srvN, per_page))
        /\ RequestShape

\* The test's run: 3 records, per_page 2, two requests, no retry.
C1_Witness ==
    /\ ExactRun /\ pgRetries = 0
    /\ srvN = 3 /\ per_page = 2
    /\ Len(calls) = 2 /\ calls[2].cursor = IntV(2)
    /\ yielded = <<1, 2, 3>>

\* C2: the cursor of page request k+1 is the integer value of the
\* next_cursor of response k, the first request has none, and every HTTP
\* call carries the params of one of the page requests.
C2_CursorThreading ==
    /\ Len(pageReqs) >= 1 => pageReqs[1].cursor = NoneV
    /\ \A k \in 2..Len(pageReqs) :
          /\ pages[k-1].meta.kind = "obj"
          /\ pages[k-1].meta.next_cursor.kind \in {"int", "str"}
          /\ pageReqs[k].cursor = [kind |-> "int", v |-> pages[k-1].meta.next_cursor.v]
    /\ \A i \in 1..Len(calls) : \E k \in 1..Len(pageReqs) : calls[i] = pageReqs[k]

\* A string next_cursor is sent as the integer it denotes.
C2_Witness ==
    /\ srvMode = "arbitrary"
    /\ Len(calls) = 3
    /\ Len(pages) >= 2
    /\ pages[1].meta.next_cursor = NumStr(MaxCursor)
    /\ calls[2].cursor = IntV(MaxCursor)
    /\ pages[2].meta.next_cursor = IntV(1)
    /\ calls[3].cursor = IntV(1)

\* next_cursor is None, "" or 0, or meta is missing or not an object
TerminalMeta(m) ==
    \/ m.kind # "obj"
    \/ m.next_cursor \in {[kind |-> "none",  v |-> 0],
                          [kind |-> "empty", v |-> 0],
                          [kind |-> "int",   v |-> 0]}

\* C3: the first response with a terminal next_cursor is the last one: its
\* rows are yielded, no request follows it and paginate ends without error;
\* and paginate ends normally only so.
C3_TerminalCursorStops ==
    /\ \A k \in 1..Len(pages) :
          TerminalMeta(pages[k].meta) =>
              /\ k = Len(pages) /\ Len(pageReqs) = k
              /\ pgPc = "done" /\ pgError = "" /\ rqPc = "idle"
              /\ srvMode = "arbitrary" => yielded = Ids(k)
    /\ PagDone => Len(pages) >= 1 /\ TerminalMeta(pages[Len(pages)].meta)

\* Second response carries next_cursor 0 after a first one carrying "0",
\* which is not terminal.
C3_Witness ==
    /\ PagDone /\ srvMode = "arbitrary"
    /\ Len(pages) = 2
    /\ pages[1].meta.next_cursor = NumStr(0)
    /\ pages[2].meta = MetaObj(IntV(0))
    /\ pageReqs[2].cursor = IntV(0)
    /\ yielded = <<1, 2>>

\* C4: whatever the server returns, no cursor value is sent in two
\* different page requests.
C4_CursorNeverRepeated ==
    \A i, j \in 1..Len(pageReqs) :
        i # j => pageReqs[i].cursor # pageReqs[j].cursor

\* C5 as stated: R records with page size per_page cost ceil(R/per_page) + 1
\* logical requests.
C5_AsStated ==
    HonestRun => Len(pageReqs) = CeilDiv(srvN, per_page) + 1

\* C5 amended: the logical requests are ceil(R/per_page), plus one exactly
\* when the stream ends with an empty page (R = 0, or the server returned a
\* next_cursor with the full page that held the last record); a last page
\* that holds records is itself the terminal page.
C5_RequestCount ==
    HonestRun =>
        Len(pageReqs) = CeilDiv(srvN, per_page)
                        + (IF pages[Len(pages)].rows = 0 THEN 1 ELSE 0)

\* The extra request: 2 records in full pages of 2, then the empty page.
C5_Witness ==
    /\ HonestRun /\ srvMode = "eager"
    /\ srvN = 2 /\ per_page = 2
    /\ Len(pageReqs) = 2
    /\ pages[2].rows = 0

----------------------------------------------------------------------------
\* Properties of one logical request
Ended == rqPc \in {"returned", "raised"}

\* the attempt that ended the request was a retryable failure
EndedByFailure ==
    /\ Ended
    /\ \/ result.kind = "raised" /\ result.why = "exception"
       \/ result.status \in {429, 500, 502, 503, 504}

TypedError == IF client = "bdl" THEN "BallDontLieError" ELSE "SupabaseError"

RaisedTyped == rqPc = "raised" /\ result.kind = "raised" /\ result.error = TypedError

\* max_retries failures, then a 200 response with a JSON object: returned
\* after max_retries + 1 attempts
SucceedsOnLastAttempt ==
    (Ended /\ Len(sleeps) = max_retries
           /\ result.status = 200 /\ result.body.kind = "json_dict") =>
        /\ rqPc = "returned" /\ result.kind = "returned"
        /\ attempts = max_retries + 1

\* C6 as stated: after max_retries + 1 failures in a row either retry layer
\* raises its typed error.
C6_AsStated ==
    /\ SucceedsOnLastAttempt
    /\ attempts <= max_retries + 1
    /\ EndedByFailure => attempts = max_retries + 1 /\ RaisedTyped

\* C6 amended: 500 for the first max_retries attempts and 200 on the next
\* returns the 200 response after exactly max_retries + 1 attempts; after
\* max_retries + 1 failures in a row no further attempt is made, the source
\* layer raises BallDontLieError, and the sink layer raises SupabaseError
\* when the last failure is a transport exception and returns the last
\* response to its caller when it is a retryable status.
C6_RetryBound ==
    /\ SucceedsOnLastAttempt
    /\ attempts <= max_retries + 1
    /\ EndedByFailure =>
          /\ attempts = max_retries + 1
          /\ IF client = "sb" /\ result.why # "exception"
             THEN rqPc = "returned" /\ result.kind = "returned"
             ELSE RaisedTyped

C6_Witness ==
    /\ client = "sb" /\ max_retries = 6
    /\ rqPc = "returned" /\ result.status = 200
    /\ lastFail.status = 500
    /\ attempts = 7

\* the request ended on a failure status outside the retryable set
EndedByOtherStatus ==
    /\ Ended
    /\ result.status >= 400
    /\ result.status \notin {429, 500, 502, 503, 504}

\* a sleep (hence a further attempt) follows only a transport exception or
\* a status in {429, 500, 502, 503, 504}
RetryOnlyWhenRetryable ==
    Len(sleeps) > 0 =>
        \/ lastFail.kind = "exc"
        \/ lastFail.kind = "status" /\ lastFail.status \in {429, 500, 502, 503, 504}

\* C7 as stated: any other failure status ends the request in that attempt,
\* without sleep, by raising the typed error, in both layers.
C7_AsStated ==
    /\ RetryOnlyWhenRetryable
    /\ EndedByOtherStatus => attempts = Len(sleeps) + 1 /\ RaisedTyped

\* C7 amended: a further attempt is made only after a transport exception
\* or a status in {429, 500, 502, 503, 504}; any other failure status ends
\* the logical request in that same attempt with no sleep and no retry: the
\* source layer raises BallDontLieError, the sink layer returns the response
\* to its caller without raising.
C7_FailureClassification ==
    /\ RetryOnlyWhenRetryable
    /\ EndedByOtherStatus =>
          /\ attempts = Len(sleeps) + 1
          /\ IF client = "sb"
             THEN rqPc = "returned" /\ result.kind = "returned"
             ELSE RaisedTyped /\ result.why = "status"

\* A 404 on the third attempt of the source client.
C7_Witness ==
    /\ client = "bdl" /\ max_retries = 6
    /\ rqPc = "raised" /\ result.status = 404
    /\ attempts = 3 /\ Len(sleeps) = 2

\* 0.6 * 1.8^k in microseconds, not computed beyond the first value >= 10 s
RECURSIVE Geometric(_)
Geometric(k) ==
    IF k = 0 THEN 600000
    ELSE LET prev == Geometric(k - 1)
         IN  IF prev >= 10000000 THEN prev ELSE (prev * 18) \div 10

\* min(0.6 * 1.8^k, 10.0)
Schedule(k) == IF Geometric(k) <= 10000000 THEN Geometric(k) ELSE 10000000

\* C8: the sleep after the k-th retryable failure is min(0.6 * 1.8^k, 10.0),
\* non-decreasing and at most 10.0; a numeric Retry-After is slept instead,
\* for that attempt only, and the computed backoff still advances; a
\* non-numeric Retry-After falls back to the computed backoff.
C8_BackoffSchedule ==
    /\ \A k \in 1..Len(sleeps) :
          \/ sleeps[k] = Schedule(k - 1)
          \/ \E r \in RetryAfterSecs : sleeps[k] = r * 1000000
    /\ Len(sleeps) > 0 =>
          sleeps[Len(sleeps)] =
              IF lastFail.kind = "status" /\ lastFail.ra.kind = "num"
              THEN lastFail.ra.v * 1000000
              ELSE Schedule(Len(sleeps) - 1)
    /\ rqPc = "loop" => backoff = Schedule(Len(sleeps))
    /\ \A k \in 0..max_retries :
          Schedule(k) <= Schedule(k + 1) /\ Schedule(k) <= 10000000

\* Retry-After: 30 on the second failure, then the schedule goes on at
\* 0.6 * 1.8^2 and reaches the cap at the sixth sleep.
C8_Witness ==
    /\ Len(sleeps) = 6
    /\ sleeps[1] = 600000
    /\ sleeps[2] = 30000000
    /\ sleeps[3] = 1944000
    /\ sleeps[5] = 6298560
    /\ sleeps[6] = 10000000
    /\ lastFail.ra = RaText

----------------------------------------------------------------------------
\* Properties of ingest_stats_and_advanced
AdvPhases == {"adv_receiving", "adv_rushing", "adv_passing"}

\* C9: no row whose player_id is null is ever passed to upsert.
C9_InvalidRowsRejected ==
    \A i \in 1..Len(upserts) :
        \A k \in 1..Len(upserts[i].rows) :
            upserts[i].rows[k]["player_id"].kind # "none"

\* C10: once an advanced accessor has yielded 25 or more records without
\* `player`, the call does not return a summary, ends with the data-quality
\* error and makes no upsert for that resource.
C10_AbortOnInvalidFlood ==
    \A ph \in AdvPhases :
        invalidSeen[ph] >= 25 =>
            /\ ingPhase # "done"
            /\ ingPhase = "raised" => ingError = "ValueError"
            /\ \A i \in 1..Len(upserts) : upserts[i].table # TableOf(ph)

\* C11: an advanced-stats loop is never left by the source client's error:
\* when the accessor of an advanced resource raises BallDontLieError during
\* iteration, the call goes on with the next resource instead of aborting.
C11_AdvancedFailureIsolated ==
    [][(ingPhase \in AdvPhases /\ ingPhase' = "raised")
          => ingError' # "BallDontLieError"]_vars

\* the advanced accessor calls asked for by advanced_weeks = [0, 1] and
\* advanced_include_postseason = True
AdvAccessors == {"iter_advanced_receiving", "iter_advanced_rushing", "iter_advanced_passing"}
WantedAdvCalls ==
    {[accessor |-> a, season |-> seasons[i], week |-> w.week, postseason |-> w.post] :
        a \in AdvAccessors, i \in 1..Len(seasons),
        w \in {[week |-> 0, post |-> FALSE], [week |-> 1, post |-> FALSE],
               [week |-> 0, post |-> TRUE]}}
AdvCallIxs == {i \in 1..Len(bdlCalls) : bdlCalls[i].accessor \in AdvAccessors}

\* C12: a call given advanced_weeks = [0, 1] and advanced_include_postseason
\* = True that no source or sink failure ends makes exactly the advanced
\* accessor calls of every (season, week 0 and 1, regular season) and
\* (season, week 0, postseason), each once, 9 per season; every upsert into
\* an advanced table is keyed "player_id,season,week,postseason".
C12_AdvancedLoopShape ==
    /\ (/\ advanced_kw = "given"
        /\ include_advanced
        /\ ingPhase \in {"done", "raised"}
        /\ ingError \notin {"SupabaseError", "BallDontLieError"})
       => /\ {bdlCalls[i] : i \in AdvCallIxs} = WantedAdvCalls
          /\ Cardinality(AdvCallIxs) = 9 * Len(seasons)
          /\ ingPhase = "done"
    /\ \A i \in 1..Len(upserts) :
          upserts[i].table \in {"nfl_advanced_receiving_stats",
                                "nfl_advanced_rushing_stats",
                                "nfl_advanced_passing_stats"}
             => upserts[i].on_conflict = "player_id,season,week,postseason"

----------------------------------------------------------------------------
\* Properties of ingest_core
RECURSIVE RowsSent(_, _)
RowsSent(table, n) ==
    IF n = 0 THEN 0
    ELSE RowsSent(table, n - 1)
         + (IF upserts[n].table = table THEN Len(upserts[n].rows) ELSE 0)

\* C13: when ingest_core returns, each of teams_upserted, players_upserted
\* and games_upserted equals the number of records the source returned for
\* the resource and the total size of the batches upserted into its table.
C13_CoreSummary ==
    ingPhase = "done" =>
        /\ counts["teams"] = fetched["teams"]
        /\ counts["players"] = fetched["players"]
        /\ counts["games"] = fetched["games"]
        /\ counts["teams"] = RowsSent("nfl_teams", Len(upserts))
        /\ counts["players"] = RowsSent("nfl_players", Len(upserts))
        /\ counts["games"] = RowsSent("nfl_games", Len(upserts))

C13_Witness ==
    /\ ingPhase = "done"
    /\ batch_size = 1
    /\ counts = [r \in {"teams", "players", "games"} |->
                    IF r = "players" THEN 2 ELSE 1]

----------------------------------------------------------------------------
\* Properties of the accessors
SentIxs == 1..Len(calls)
IsAdvancedCall == accCall.accessor \in {"iter_advanced_receiving", "iter_advanced_rushing",
                                        "iter_advanced_passing"}

\* C14: every request of iter_player_season_stats carries postseason as the
\* string "true" or "false"; every request of an advanced accessor called
\* with postseason=True carries postseason as the integer 1.
C14_BooleanEncodings ==
    \A i \in SentIxs :
        /\ accCall.accessor = "iter_player_season_stats"
              => SentParams(i)["postseason"]
                    = [kind |-> "boolstr", v |-> IF accCall.postseason THEN 1 ELSE 0]
        /\ (IsAdvancedCall /\ accCall.postseason)
              => /\ "postseason" \in DOMAIN SentParams(i)
                 /\ SentParams(i)["postseason"] = [kind |-> "int", v |-> 1]

\* C15: a request of an advanced accessor called with week=0 has no `week`
\* param, and none of `week` and `postseason` when postseason=False too;
\* called with week=2 and postseason=True it has week=2 and postseason=1.
C15_ZeroWeekOmitted ==
    \A i \in SentIxs :
        IsAdvancedCall =>
            /\ accCall.week = 0 => "week" \notin DOMAIN SentParams(i)
            /\ (accCall.week = 0 /\ ~accCall.postseason)
                  => "postseason" \notin DOMAIN SentParams(i)
            /\ (accCall.week = 2 /\ accCall.postseason)
                  => /\ "week" \in DOMAIN SentParams(i)
                     /\ SentParams(i)["week"] = [kind |-> "int", v |-> 2]

----------------------------------------------------------------------------
\* Properties of SupabaseClient.upsert / select / count
IsUpsert   == sbOp.op = "upsert"
FinalIs2xx == sinkResp.kind = "resp" /\ 200 <= sinkResp.status /\ sinkResp.status < 300

\* C16: upsert of an empty list returns 0 and makes no request; upsert of a
\* non-empty list hands exactly one POST to _request per call (all rows in
\* one body, Prefer resolution=merge-duplicates,return=minimal, on_conflict
\* as query parameter), returns len(rows) when the final response is 2xx and
\* raises SupabaseError otherwise.
C16_UpsertContract ==
    IsUpsert =>
        /\ sbOp.rows = <<>> =>
              /\ sbReqs = <<>>
              /\ attempts = 0 /\ rqPc = "idle"
              /\ sbPc = "done" => sbOut.kind = "returned" /\ sbOut.value = 0
        /\ sbOp.rows # <<>> =>
              /\ Len(sbReqs) = sbCalls
              /\ \A i \in 1..Len(sbReqs) :
                    /\ sbReqs[i].method = "POST"
                    /\ sbReqs[i].json_body = sbOp.rows
                    /\ sbReqs[i].prefer = {"resolution=merge-duplicates", "return=minimal"}
                    /\ sbReqs[i].on_conflict = sbOp.on_conflict
                    /\ sbReqs[i].content_type_json
                    /\ ~sbReqs[i].range.given
              /\ sbPc = "done" =>
                    IF FinalIs2xx
                    THEN sbOut.kind = "returned" /\ sbOut.value = Len(sbOp.rows)
                    ELSE sbOut.kind = "raised" /\ sbOut.error = "SupabaseError"

C16_Witness ==
    /\ IsUpsert
    /\ Len(sbOp.rows) = 2
    /\ sbPc = "done"
    /\ max_retries = 1
    /\ sinkResp.kind = "resp" /\ sinkResp.status = 503
    /\ sbOut.kind = "raised"

OneRowPerKey(T) == \A t1 \in T, t2 \in T : t1.key = t2.key => t1 = t2

\* C17: against a sink that merges on the conflict key, once the batch has
\* been applied, applying it again (a second identical upsert call, or an
\* attempt re-sent after a lost response) leaves the table as it was; the
\* table keeps one row per conflict key, holds the rows of the batch, and
\* the sink never answers with a duplicate-key error.
C17_UpsertIdempotent ==
    [][IsUpsert =>
          /\ sinkApplied >= 1 => sinkTable' = sinkTable
          /\ OneRowPerKey(sinkTable')
          /\ sinkApplied' >= 1 =>
                \A i \in 1..Len(sbOp.rows) : sbOp.rows[i] \in sinkTable'
          /\ ~(sinkResp'.kind = "resp" /\ sinkResp'.status = 409)]_vars

C17_Witness ==
    /\ IsUpsert
    /\ Len(sbOp.rows) = 2
    /\ sbCalls = 2
    /\ sbPc = "done"
    /\ sinkApplied = 3
    /\ \E t \in sinkTable : t.val = 0

IsSelect == sbOp.op = "select"
IsCount  == sbOp.op = "count"

\* C18: select with limit <= 0 returns the empty list and makes no request;
\* with limit > 0 every request carries Range-Unit: items and the Range
\* offset-(offset+limit-1) and at most limit rows are returned; a 2xx
\* response whose body is not a JSON list makes select raise SupabaseError.
C18_SelectContract ==
    IsSelect =>
        /\ (sbOp.limit.kind = "int" /\ sbOp.limit.v <= 0) =>
              /\ sbReqs = <<>>
              /\ attempts = 0 /\ rqPc = "idle"
              /\ sbPc = "done" => sbOut.kind = "returned" /\ sbOut.rows = <<>>
        /\ (sbOp.limit.kind = "int" /\ sbOp.limit.v > 0) =>
              /\ \A i \in 1..Len(sbReqs) :
                    /\ sbReqs[i].range_unit = "items"
                    /\ sbReqs[i].range = [given |-> TRUE, from |-> sbOp.offset,
                                          to |-> sbOp.offset + sbOp.limit.v - 1]
              /\ (sbPc = "done" /\ sbOut.kind = "returned")
                    => Len(sbOut.rows) <= sbOp.limit.v
        /\ (sbPc = "done" /\ sbReqs # <<>> /\ FinalIs2xx
              /\ sinkResp.body.kind # "json_list")
              => sbOut.kind = "raised" /\ sbOut.error = "SupabaseError"

\* C19: count hands one HEAD request with Prefer: count=exact to _request
\* and returns the integer after the "/" of Content-Range; when the header
\* is absent, has no "/", or its total is not an integer, count raises
\* SupabaseError.
C19_CountContract ==
    IsCount =>
        /\ Len(sbReqs) = sbCalls
        /\ \A i \in 1..Len(sbReqs) :
              sbReqs[i].method = "HEAD" /\ sbReqs[i].prefer = {"count=exact"}
        /\ (sbPc = "done" /\ FinalIs2xx) =>
              IF /\ sinkResp.content_range.kind = "slash"
                 /\ sinkResp.content_range.total.kind = "str"
              THEN /\ sbOut.kind = "returned"
                   /\ sbOut.value = sinkResp.content_range.total.v
              ELSE sbOut.kind = "raised" /\ sbOut.error = "SupabaseError"

----------------------------------------------------------------------------
\* Properties of RateLimiter.wait
\* C20: the first wait() on a fresh limiter does not sleep; a later one
\* sleeps exactly when less than min_interval_seconds has passed since the
\* previous one returned; two consecutive calls return at least
\* min_interval_seconds apart; no call asks for a sleep longer than
\* min_interval_seconds.
C20_RateLimiterWait ==
    \A i \in 1..Len(waitLog) :
        /\ i = 1 => waitLog[i].slept = 0
        /\ i > 1 =>
              /\ waitLog[i].slept > 0
                    <=> waitLog[i].entered - waitLog[i - 1].returned < min_interval_seconds
              /\ waitLog[i].returned - waitLog[i - 1].returned >= min_interval_seconds
        /\ waitLog[i].slept <= min_interval_seconds
        /\ waitLog[i].slept >= 0

C20_Witness ==
    /\ Len(waitLog) = 3
    /\ min_interval_seconds = 2
    /\ waitLog[2].slept = 1
    /\ waitLog[3].slept = 0
    /\ waitLog[3].entered > waitLog[2].returned

----------------------------------------------------------------------------
\* Properties of the row mappers
MapperCalled == mappedRow # <<>>
SrcHas(k)    == k \in DOMAIN record
SrcIsMapping(k) == SrcHas(k) /\ record[k].kind = "dict"

\* the value of the source record under a key, null when the key is absent
SrcValue(k) == IF SrcHas(k) THEN record[k] ELSE [kind |-> "none", v |-> 0]

ExtendedFields(m) ==
    CASE m = "map_adv_rushing" ->
             {"rush_touchdowns", "avg_time_to_los", "rush_pct_over_expected",
              "percent_attempts_gte_eight_defenders"}
      [] m = "map_adv_passing" ->
             {"expected_completion_percentage", "avg_air_distance", "max_air_distance",
              "games_played"}
      [] m = "map_adv_receiving" ->
             {"avg_cushion", "avg_separation", "percent_share_of_intended_air_yards",
              "rec_touchdowns"}
      [] OTHER -> {}

\* C21: the row of map_adv_rushing, map_adv_passing and map_adv_receiving
\* carries each of the mapper's extended fields with the value the source
\* record has for it, and player_id is the id of record.player.
C21_ExtendedFieldsPassThrough ==
    (MapperCalled /\ ExtendedFields(mapper) # {}) =>
        /\ "player_id" \in DOMAIN mappedRow
        /\ mappedRow["player_id"] =
              (IF SrcIsMapping("player") THEN SrcValue("player.id")
                                         ELSE [kind |-> "none", v |-> 0])
        /\ \A f \in ExtendedFields(mapper) :
              /\ f \in DOMAIN mappedRow
              /\ mappedRow[f] = SrcValue(f)

\* the keys of the row a mapper builds, as it builds them for the empty record
RowKeys(m) == DOMAIN MapperOf(m, << >>)

\* row field, nested key and the nested object's field it is read from
ForeignKeys(m) ==
    CASE m = "map_team"   -> {}
      [] m = "map_player" -> {<<"team_id", "team", "team.id">>}
      [] m = "map_game"   -> {<<"home_team_id", "home_team", "home_team.id">>,
                              <<"visitor_team_id", "visitor_team", "visitor_team.id">>}
      [] m = "map_player_game_stats" ->
             {<<"player_id", "player", "player.id">>, <<"game_id", "game", "game.id">>,
              <<"team_id", "team", "team.id">>}
      [] OTHER -> {<<"player_id", "player", "player.id">>}

\* fields map_player_game_stats reads from the embedded game
FromGame(m) ==
    IF m = "map_player_game_stats"
    THEN {<<"season", "game", "game.season">>, <<"week", "game", "game.week">>,
          <<"postseason", "game", "game.postseason">>}
    ELSE {}

ForeignKeysResolved ==
    \A fk \in ForeignKeys(mapper) :
        mappedRow[fk[1]] =
            (IF SrcIsMapping(fk[2]) THEN SrcValue(fk[3]) ELSE [kind |-> "none", v |-> 0])

\* the row fields read from the record itself
PlainRowFields ==
    (DOMAIN mappedRow \ {"updated_at"})
        \ ({fk[1] : fk \in ForeignKeys(mapper)} \cup {g[1] : g \in FromGame(mapper)})

RowShape ==
    /\ DOMAIN mappedRow = RowKeys(mapper)
    /\ "updated_at" \in DOMAIN mappedRow
    /\ mappedRow["updated_at"].kind = "time"
    /\ ForeignKeysResolved

\* C22 as stated: every mapper returns a row with updated_at and a fixed set
\* of keys, foreign keys resolved one level deep or null, and every field
\* absent from the source null.
C22_AsStated ==
    MapperCalled =>
        /\ RowShape
        /\ \A f \in PlainRowFields : ~SrcHas(f) => mappedRow[f].kind = "none"
        /\ \A g \in FromGame(mapper) :
              ~(SrcIsMapping(g[2]) /\ SrcHas(g[3])) => mappedRow[g[1]].kind = "none"

\* C22 amended: every mapper returns, for any record, a row with updated_at
\* and a fixed set of keys; a foreign key is the nested object's id when the
\* nested value is a mapping and null otherwise; a field absent from the
\* source is null, except `postseason` in the stats mappers, which is false
\* when the record (for map_player_game_stats: the embedded game) has none.
C22_MappersTotal ==
    MapperCalled =>
        /\ RowShape
        /\ \A f \in PlainRowFields :
              ~SrcHas(f) =>
                  mappedRow[f] = IF f = "postseason" /\ mapper # "map_game"
                                 THEN [kind |-> "bool", v |-> 0]
                                 ELSE [kind |-> "none", v |-> 0]
        /\ \A g \in FromGame(mapper) :
              ~(SrcIsMapping(g[2]) /\ SrcHas(g[3])) =>
                  mappedRow[g[1]] = IF g[1] = "postseason"
                                    THEN [kind |-> "bool", v |-> 0]
                                    ELSE [kind |-> "none", v |-> 0]

\* A game-stats record whose player is a mapping, whose team is not one and
\* which has no game.
C22_Witness ==
    /\ MapperCalled
    /\ mapper = "map_player_game_stats"
    /\ SrcIsMapping("player") /\ SrcHas("team") /\ record["team"].kind = "bad"
    /\ ~SrcHas("game") /\ ~SrcHas("qbr")
    /\ mappedRow["player_id"] = [kind |-> "int", v |-> 466]
    /\ mappedRow["team_id"].kind = "none"
    /\ mappedRow["game_id"].kind = "none"
    /\ mappedRow["postseason"] = [kind |-> "bool", v |-> 0]

----------------------------------------------------------------------------
\* Properties of the calls one logical request makes
EventIxs(e) == {i \in 1..Len(events) : events[i] = e}

RetryableFailure(f) ==
    \/ f.kind = "exc"
    \/ f.kind = "status" /\ f.status \in {429, 500, 502, 503, 504}

\* C23: in the source client every HTTP attempt, first or retry, is
\* immediately preceded by exactly one RateLimiter.wait(), so a wait lies
\* between any two requests; the sink client never calls a rate limiter and
\* sleeps only right after an attempt that failed retryably.
C23_RateLimitCoverage ==
    /\ client = "bdl" =>
          /\ \A i \in EventIxs("request") : i > 1 /\ events[i - 1] = "wait"
          /\ \A i \in EventIxs("wait") : i < Len(events) /\ events[i + 1] = "request"
          /\ \A i, j \in EventIxs("request") :
                i < j => \E k \in EventIxs("wait") : i < k /\ k < j
          /\ rlWaits = attempts
          /\ Cardinality(EventIxs("request")) = attempts
    /\ client = "sb" =>
          /\ EventIxs("wait") = {}
          /\ rlWaits = 0
          /\ \A i \in EventIxs("sleep") : i > 1 /\ events[i - 1] = "request"
          /\ Len(sleeps) > 0 => RetryableFailure(lastFail)
          /\ Cardinality(EventIxs("sleep")) = Len(sleeps)

\* A retried source request: wait, request, sleep, wait, request.
C23_Witness ==
    /\ client = "bdl"
    /\ rqPc = "returned"
    /\ events = <<"wait", "request", "sleep", "wait", "request">>

\* C28: one logical request of either client makes at most max_retries + 1
\* attempts, counted by the one loop variable whatever the kind of failure;
\* exactly one sleep lies between two consecutive attempts and none follows
\* the last one: sleeps = attempts - 1.
C28_RetryBudget ==
    /\ attempts <= max_retries + 1
    /\ attempts = attempt + (IF rqPc \in {"returned", "raised"} THEN 1 ELSE 0)
    /\ Cardinality(EventIxs("request")) = attempts
    /\ Cardinality(EventIxs("sleep")) = Len(sleeps)
    /\ rqPc = "loop" => Len(sleeps) = attempts
    /\ rqPc \in {"returned", "raised"} =>
          /\ Len(sleeps) = attempts - 1
          /\ events[Len(events)] = "request"
    /\ \A i \in EventIxs("sleep") :
          /\ i > 1 /\ events[i - 1] = "request"
          /\ i < Len(events) => events[i + 1] # "sleep"
    /\ \A i, j \in EventIxs("request") :
          i < j => \E k \in EventIxs("sleep") : i < k /\ k < j

\* The budget used up by failures of both kinds: the last sleep followed a
\* transport exception, the last attempt ended on a retryable status.
C28_Witness ==
    /\ client = "sb" /\ max_retries = 3
    /\ rqPc = "returned" /\ result.status = 503
    /\ lastFail.kind = "exc"
    /\ attempts = 4 /\ Len(sleeps) = 3

----------------------------------------------------------------------------
\* Properties of the batch loops of the coordinator
UpsertIxs(t) == {i \in 1..Len(upserts) : upserts[i].table = t}
LastAccessor == bdlCalls[Len(bdlCalls)].accessor

\* the accessor whose records go to a table
FeederOf(t) ==
    CASE t = "nfl_teams"                    -> "list_teams"
      [] t = "nfl_players"                  -> "iter_players"
      [] t = "nfl_games"                    -> "iter_games"
      [] t = "nfl_player_season_stats"      -> "iter_player_season_stats"
      [] t = "nfl_player_game_stats"        -> "iter_player_game_stats"
      [] t = "nfl_advanced_receiving_stats" -> "iter_advanced_receiving"
      [] t = "nfl_advanced_rushing_stats"   -> "iter_advanced_rushing"
      [] t = "nfl_advanced_passing_stats"   -> "iter_advanced_passing"

SeqIds(rows) == [k \in 1..Len(rows) |-> rows[k]["id"].v]

\* ids of the rows handed to upsert for the streamed resources, in order
RECURSIVE StreamedIds(_)
StreamedIds(n) ==
    IF n = 0 THEN <<>>
    ELSE StreamedIds(n - 1)
         \o (IF upserts[n].table \in {"nfl_players", "nfl_games"}
             THEN SeqIds(upserts[n].rows) ELSE <<>>)

C27_Chunking ==
    /\ StreamedIds(Len(upserts)) \o SeqIds(buf) = [i \in 1..pulled |-> i]
    /\ Len(buf) < batch_size
    /\ \A t \in {"nfl_players", "nfl_games"} :
          \A i \in UpsertIxs(t) :
              /\ Len(upserts[i].rows) >= 1
              /\ Len(upserts[i].rows) <= batch_size
              /\ (\E j \in UpsertIxs(t) : j > i) => Len(upserts[i].rows) = batch_size
              /\ (ingPhase \in {"players", "games"} /\ CoreTableOf(ingPhase) = t)
                    => Len(upserts[i].rows) = batch_size

\* Three players in batches of two: a full batch, then the rest.
C27_Witness ==
    /\ ingPhase = "done"
    /\ batch_size = 2
    /\ fetched["players"] = 3
    /\ \E i \in 1..Len(upserts) :
          /\ i < Len(upserts)
          /\ upserts[i].table = "nfl_players" /\ Len(upserts[i].rows) = 2
          /\ upserts[i + 1].table = "nfl_players" /\ Len(upserts[i + 1].rows) = 1

StreamedPhaseOf(acc) == IF acc = "iter_players" THEN "players" ELSE "games"

\* the source sequence of a streamed resource raised
StreamRaised ==
    /\ ingPhase = "raised"
    /\ ingError = "BallDontLieError"
    /\ LastAccessor \in {"iter_players", "iter_games"}

\* C29: when the source sequence of a streamed resource raises after r
\* records, floor(r / batch_size) upsert calls have been made for its table,
\* each of batch_size rows in source order; the r mod batch_size buffered
\* rows are in no upsert, then or later; the calls already made stay.
C29_PartialFailure ==
    /\ [](StreamRaised =>
            LET ph == StreamedPhaseOf(LastAccessor)
                t  == CoreTableOf(ph)
                r  == fetched[ph]
            IN  /\ Cardinality(UpsertIxs(t)) = r \div batch_size
                /\ \A i \in UpsertIxs(t) : Len(upserts[i].rows) = batch_size
                /\ Len(buf) = r % batch_size
                /\ StreamedIds(Len(upserts)) = [i \in 1..(pulled - Len(buf)) |-> i]
                /\ SeqIds(buf) = [i \in 1..Len(buf) |-> pulled - Len(buf) + i])
    /\ [][StreamRaised => UNCHANGED <<upserts, buf, ingPhase, ingError>>]_vars

\* Three players at batch size 2: one upsert of two rows, one row lost.
C29_Witness ==
    /\ StreamRaised
    /\ LastAccessor = "iter_players"
    /\ batch_size = 2
    /\ fetched["players"] = 3
    /\ Len(buf) = 1
    /\ Cardinality(UpsertIxs("nfl_players")) = 1

----------------------------------------------------------------------------
\* Properties of the source client on a malformed success response
Success(st) == 200 <= st /\ st < 300

\* the response _request has just returned to paginate
ReturnedPage == pgPc = "request" /\ rqPc = "returned"

\* C25: a 2xx source response whose body is not JSON or not a JSON object
\* makes _request raise BallDontLieError in that attempt; one whose `data`
\* is not a list, or whose next_cursor is neither terminal nor a number,
\* makes paginate raise it; in each case no HTTP attempt and no sleep
\* follows, whatever is left of the retry budget, and no sleep ever follows
\* a 2xx response.
C25_ProtocolErrorsFatal ==
    [][/\ (rqPc = "loop" /\ attempts' = attempts + 1 /\ Success(result'.status)
              /\ result'.body.kind # "json_dict") =>
             /\ rqPc' = "raised"
             /\ result'.error = "BallDontLieError"
             /\ result'.why = (IF result'.body.kind = "not_json" THEN "json_decode"
                                                                 ELSE "not_object")
             /\ sleeps' = sleeps
       /\ Len(sleeps') > Len(sleeps) =>
             (lastFail'.kind = "exc" \/ ~Success(lastFail'.status))
       /\ (ReturnedPage /\ result.body.payload.data.kind # "list") =>
             /\ pgPc' = "raised" /\ pgError' = "data_not_list"
             /\ calls' = calls /\ pageReqs' = pageReqs /\ rqPc' = "idle"
       /\ (ReturnedPage /\ result.body.payload.data.kind = "list"
              /\ result.body.payload.meta.kind = "obj"
              /\ result.body.payload.meta.next_cursor.kind = "bad") =>
             /\ pgPc' = "raised" /\ pgError' = "invalid_next_cursor"
             /\ calls' = calls /\ pageReqs' = pageReqs /\ rqPc' = "idle"
       /\ pgPc = "raised" => UNCHANGED <<calls, pageReqs, sleeps, attempts, pgPc, pgError>>
       /\ (rqPc = "raised" /\ pgPc = "request") =>
             (calls' = calls /\ sleeps' = <<>> /\ pgPc' = "raised")]_vars

\* An unusable next_cursor in the first response, with a retry left.
C25_Witness ==
    /\ pgPc = "raised"
    /\ pgError = "invalid_next_cursor"
    /\ max_retries = 1
    /\ Len(calls) = 1
    /\ Len(pageReqs) = 1
    /\ yielded = <<1>>

----------------------------------------------------------------------------
\* C30: a select request carries Range and Range-Unit exactly when limit is
\* a positive integer; with limit=None it carries neither, whatever offset
\* is, and is the request select makes with offset 0.
C30_RangeOnlyWithLimit ==
    (sbOp.op = "select") =>
        \A i \in 1..Len(sbReqs) :
            /\ sbReqs[i].range.given <=> (sbOp.limit.kind = "int" /\ sbOp.limit.v > 0)
            /\ (sbReqs[i].range_unit = "items") <=> sbReqs[i].range.given
            /\ sbOp.limit.kind = "none" =>
                  sbReqs[i] = [method |-> "GET", on_conflict |-> "", prefer |-> {},
                               content_type_json |-> FALSE, json_body |-> <<>>,
                               range_unit |-> "",
                               range |-> [given |-> FALSE, from |-> 0, to |-> 0]]

\* select(limit=None, offset=1) has made its request and returned rows.
C30_Witness ==
    /\ sbOp.op = "select"
    /\ sbOp.limit.kind = "none"
    /\ sbOp.offset = 1
    /\ Len(sbReqs) = 1
    /\ sbPc = "done"
    /\ sbOut.kind = "returned"

----------------------------------------------------------------------------
\* Properties of main()
MainEnded == mainPc \in {"returned", "raised"}

\* C26: the process ends with status 0 only after ingest_core (unless
\* advanced-only) and ingest_stats_and_advanced have completed; when an
\* ingestion function fails, with the sink client's or the source client's
\* error, the error and the schema/credentials instruction are logged and
\* the process ends with a non-zero status.
C26_ProcessOutcome ==
    /\ (exitCode.kind = "int" /\ exitCode.v = 0) =>
          /\ ingPhase = "done"
          /\ logged = <<(IF advanced_only THEN "advanced_only" ELSE "core_complete"),
                        "stats_complete">>
    /\ (MainEnded /\ ingPhase = "raised") =>
          /\ exitCode.kind = "int" /\ exitCode.v # 0
          /\ Len(logged) >= 2
          /\ logged[Len(logged) - 1] = "error"
          /\ logged[Len(logged)] = "schema_instruction"

====
